---- MODULE Spec2Model ----
(***************************************************************************)
(* Model of the ScreenshotSaver add-on: the batch render operator          *)
(* (SCRSHOT_OT_render_screenshots), its settings snapshot / restore, the   *)
(* visibility isolation, and the numbered output path computation.         *)
(*                                                                         *)
(* Strings that the code takes apart (file names) are sequences of         *)
(* one-character strings, so that split / int / format are computed the    *)
(* way Python computes them.                                               *)
(***************************************************************************)
EXTENDS Integers, Sequences, FiniteSets, TLC

(***************************************************************************)
(* Bounds of the model                                                     *)
(***************************************************************************)
\* number of batch renders started in one behaviour
MaxRuns == 2
\* number of versioner calls in one behaviour of SpecPath
MaxCalls == 2
MaxItems == 3
MaxOps == 6
MaxMoves == 3
MaxClock == 165
MaxStartRepeat == 2
MaxEndRepeat == 1

(***************************************************************************)
(* Python string helpers                                                   *)
(***************************************************************************)
Digits == <<"0", "1", "2", "3", "4", "5", "6", "7", "8", "9">>

IsDigit(c) == \E i \in 1..10 : Digits[i] = c

DigitVal(c) == (CHOOSE i \in 1..10 : Digits[i] = c) - 1

\* s[i..j], empty when j < i
Slice(s, i, j) == IF j < i THEN <<>> ELSE SubSeq(s, i, j)

\* positions at which the sequence sep occurs in s
Occurrences(s, sep) ==
    {i \in 1..(Len(s) - Len(sep) + 1) : Slice(s, i, i + Len(sep) - 1) = sep}

\* s.split(sep)[-1]
SplitLast(s, sep) ==
    LET occ == Occurrences(s, sep) IN
    IF occ = {} THEN s
    ELSE LET last == CHOOSE i \in occ : \A j \in occ : j <= i
         IN  Slice(s, last + Len(sep), Len(s))

\* s.split(sep)[0]
SplitFirst(s, sep) ==
    LET occ == Occurrences(s, sep) IN
    IF occ = {} THEN s
    ELSE LET first == CHOOSE i \in occ : \A j \in occ : i <= j
         IN  Slice(s, 1, first - 1)

\* s.startswith(p) and s.endswith(p)
StartsWith(s, p) == Len(p) <= Len(s) /\ Slice(s, 1, Len(p)) = p
EndsWith(s, p) == Len(p) <= Len(s) /\ Slice(s, Len(s) - Len(p) + 1, Len(s)) = p

RECURSIVE DigitsValue(_)
DigitsValue(s) ==
    IF s = <<>> THEN 0
    ELSE 10 * DigitsValue(Slice(s, 1, Len(s) - 1)) + DigitVal(s[Len(s)])

RECURSIVE StripSpaces(_)
StripSpaces(s) ==
    IF s = <<>> THEN s
    ELSE IF s[1] = " " THEN StripSpaces(Tail(s))
    ELSE IF s[Len(s)] = " " THEN StripSpaces(Slice(s, 1, Len(s) - 1))
    ELSE s

\* int(s): surrounding blanks stripped, an optional sign, then digits only;
\* anything else is a ValueError (ok = FALSE)
PyInt(s) ==
    LET t    == StripSpaces(s)
        neg  == t # <<>> /\ t[1] = "-"
        sgn  == t # <<>> /\ t[1] \in {"-", "+"}
        body == IF sgn THEN Tail(t) ELSE t
    IN  IF body # <<>> /\ \A i \in 1..Len(body) : IsDigit(body[i])
        THEN [ok |-> TRUE, val |-> IF neg THEN 0 - DigitsValue(body) ELSE DigitsValue(body)]
        ELSE [ok |-> FALSE, val |-> 0]

RECURSIVE NatDigits(_)
NatDigits(n) ==
    IF n < 10 THEN <<Digits[n + 1]>>
    ELSE NatDigits(n \div 10) \o <<Digits[(n % 10) + 1]>>

RECURSIVE ZeroPad(_, _)
ZeroPad(s, w) == IF Len(s) >= w THEN s ELSE ZeroPad(<<"0">> \o s, w)

\* '{:04d}'.format(n): the sign counts in the width
Format04d(n) ==
    IF n >= 0 THEN ZeroPad(NatDigits(n), 4)
    ELSE <<"-">> \o ZeroPad(NatDigits(0 - n), 3)


(***************************************************************************)
(* State                                                                   *)
(***************************************************************************)
VARIABLES
    fs,               \* directory entries on disk: [dir, name, isfile]
    blend_saved,      \* bpy.data.filepath is not empty
    sett,             \* scene.screenshot_saver (GlobalCaptureSettings)
    coll,             \* scene.scrshot_camera_coll
    index,            \* scene.scrshot_camera_index
    bags,             \* the settings objects: bag name -> attribute -> value
    view,             \* area type, view perspective, local view of the 3D view
    obs,              \* objects of the view layer: visibility flags
    colls,            \* bpy.data.collections: visibility flags and layer node
    op,               \* the running render operator instance (self)
    pc,               \* position inside execute
    result,           \* outcome of the last operator call
    report,           \* last self.report message
    pre,              \* history: shared state when the running batch started
    mid,              \* history: visibility after the force step, skipped writes
    renders,          \* history: files rendered by the running batch
    history,          \* history: the batches that ended, oldest first
    runs,             \* number of operator calls so far
    pv,               \* history: the last path versioner call (SpecPath)
    bdata,            \* bpy.data: objects, cameras, the add-on's camera collection
    popup,            \* display_error_message: the pop-ups shown so far
    last,             \* history: the last item operation and what it did
    smp,              \* the running light rotation sampler (operator instance)
    header,           \* context.area header text (the status readout)
    saver,            \* record_on_save and the module global old_time
    now,              \* time.time(), in seconds
    autos,            \* history: start times of the batches the save handler ran
    images,           \* pixel size of the image files on disk: name -> [w, h]
    enc               \* the encoder: concat.txt, the running call, its passes

vars == <<fs, blend_saved, sett, coll, index, bags, view, obs, colls, op, pc,
          result, report, pre, mid, renders, history, runs, pv,
          bdata, popup, last, smp, header, saver, now, autos, images, enc>>

itemVars    == <<bdata, popup, last>>
samplerVars == <<smp, header>>
saveVars    == <<saver, now, autos>>
encVars     == <<images, enc>>

(***************************************************************************)
(* Names and paths                                                         *)
(***************************************************************************)
NameA == <<"A">>
NameB == <<"B">>
SubX  == <<"x">>

TmpDir    == << <<"t", "m", "p">> >>
ShotsDir  == << <<"t", "m", "p">>, <<"s", "h", "o", "t", "s">> >>
BlendDir  == << <<"p">> >>
ScreenshotsDir == << <<"p">>, <<"s", "c", "r">> >>
BlankDir  == << <<" ">> >>
GoneDir   == << <<"t", "m", "p">>, <<"g", "o", "n", "e">> >>

\* bpy.path.abspath(export_path)
AbsPath(p) ==
    CASE p = "//screenshots" -> ScreenshotsDir
      [] p = "/tmp/shots"    -> ShotsDir
      [] p = "/tmp/gone"     -> GoneDir
      [] OTHER               -> BlankDir

Parent(d) == Slice(d, 1, Len(d) - 1)

IsDir(f, d) ==
    \/ d = <<>>
    \/ [dir |-> Parent(d), name |-> d[Len(d)], isfile |-> FALSE] \in f

IsFile(f, d, n) == [dir |-> d, name |-> n, isfile |-> TRUE] \in f

\* os.path.exists
PathExists(f, d) ==
    \/ IsDir(f, d)
    \/ d # <<>> /\ IsFile(f, Parent(d), d[Len(d)])

DirEntry(d) == [dir |-> Parent(d), name |-> d[Len(d)], isfile |-> FALSE]

\* Path.mkdir(exist_ok=True): FileNotFoundError without the parent,
\* FileExistsError when a plain file has the name
MkdirOk(f, d) == IsDir(f, d) \/ (IsDir(f, Parent(d)) /\ ~PathExists(f, d))
Mkdir(f, d) == IF IsDir(f, d) THEN f ELSE f \cup {DirEntry(d)}

\* file extension of the image format
FileFormat(format_type) == IF format_type = "open_exr" THEN "exr" ELSE format_type

ExtChars(ext) ==
    CASE ext = "png"  -> <<"p", "n", "g">>
      [] ext = "jpeg" -> <<"j", "p", "e", "g">>
      [] ext = "exr"  -> <<"e", "x", "r">>
      [] ext = "mp4"  -> <<"m", "p", "4">>
      [] ext = "gif"  -> <<"g", "i", "f">>

(***************************************************************************)
(* Path versioner                                                          *)
(***************************************************************************)
\* the numbers collected from a directory listing
FileNumbers(f, d, ext) ==
    {PyInt(SplitFirst(SplitLast(e.name, <<"_">>), <<".">> \o ExtChars(ext))).val :
        e \in {x \in f : /\ x.dir = d
                         /\ x.isfile
                         /\ PyInt(SplitFirst(SplitLast(x.name, <<"_">>),
                                             <<".">> \o ExtChars(ext))).ok}}

SetMax(S) == CHOOSE m \in S : \A n \in S : n <= m

CounterKeepMax(file_numbers) ==
    IF file_numbers = {} THEN 1 ELSE SetMax(file_numbers)

Counter(file_numbers) ==
    IF file_numbers = {} THEN 1 ELSE SetMax(file_numbers) + 1

\* stem + '_{:04d}'.format(counter) + '.' + ext
NumberedName(stem, counter, ext) ==
    stem \o <<"_">> \o Format04d(counter) \o <<".">> \o ExtChars(ext)

PathEndAlwaysSubfolder(item) == <<item.subfolder_name, item.name>>

\* Path(subfolder_name, name) if use_subfolder else name
PathEnd(item) ==
    IF item.use_subfolder THEN <<item.subfolder_name, item.name>> ELSE <<item.name>>

\* handle_path_formatting after the mkdir: the returned render.filepath
HandlePathFormatting(f, root, item, format_type) ==
    LET file_path == root \o PathEnd(item)
        d    == Parent(file_path)
        stem == file_path[Len(file_path)]
        ext  == FileFormat(format_type)
    IN  [dir |-> d, name |-> NumberedName(stem, Counter(FileNumbers(f, d, ext)), ext)]

\* handle_path_formatting_mp4
HandlePathFormattingMp4(f, input_path, mp4_format_type) ==
    LET d    == Parent(input_path)
        stem == input_path[Len(input_path)]
    IN  [dir |-> d,
         name |-> NumberedName(stem, Counter(FileNumbers(f, d, mp4_format_type)),
                               mp4_format_type)]


(***************************************************************************)
(* Settings objects (attribute bags)                                       *)
(* Float values are integers; the sampler reads angles as 1e-6 radian.     *)
(***************************************************************************)
\* dir(data) of each settings object, in dir() order; rna_type stands for
\* the read-only entries that dir() lists
DirAttrs(b) ==
    CASE b = "shading" ->
           <<"cavity_ridge_factor", "cavity_type", "cavity_valley_factor", "color_type",
             "curvature_ridge_factor", "curvature_valley_factor", "light",
             "object_outline_color", "rna_type", "show_backface_culling", "show_cavity",
             "show_object_outline", "show_shadows", "show_specular_highlight", "show_xray",
             "studio_light", "studiolight_background_alpha", "studiolight_background_blur",
             "studiolight_intensity", "studiolight_rotate_z", "type", "use_dof",
             "use_scene_lights", "use_scene_world", "use_studiolight_view_rotation",
             "use_world_space_lighting">>
      [] b = "render" ->
           <<"engine", "filepath", "resolution_x", "resolution_y", "rna_type",
             "use_file_extension", "use_overwrite", "use_placeholder", "use_render_cache">>
      [] b = "image_settings" -> <<"color_depth", "color_mode", "file_format", "rna_type">>
      [] b = "display" -> <<"rna_type", "viewport_aa">>
      [] b = "eevee" -> <<"rna_type", "taa_samples">>
      [] b = "overlay" -> <<"rna_type", "show_overlays">>
      [] b = "display_settings" -> <<"display_device", "rna_type">>
      [] b = "scene" -> <<"camera", "frame_current", "rna_type">>

BagNames == {"shading", "render", "image_settings", "display", "eevee", "overlay",
             "display_settings", "scene"}

\* the colour depths an image format accepts; writing another one raises
\* TypeError ("this seems to only happen with color depth (bad context)")
ValidDepths(file_format) ==
    CASE file_format = "JPEG"     -> {"8"}
      [] file_format = "PNG"      -> {"8", "16"}
      [] file_format = "OPEN_EXR" -> {"16", "32"}

\* setattr(data, name, value): "ok", "AttributeError" or "TypeError"
SetAttrOutcome(b, bag, name, value) ==
    IF name = "rna_type" THEN "AttributeError"
    ELSE IF b = "image_settings" /\ name = "color_depth"
            /\ value \notin ValidDepths(bag.file_format) THEN "TypeError"
    ELSE "ok"

\* the ambient settings of a session in which the user works in wireframe
AmbientUser ==
    [shading |->
       [cavity_ridge_factor |-> 70, cavity_type |-> "WORLD", cavity_valley_factor |-> 70,
        color_type |-> "OBJECT", curvature_ridge_factor |-> 70,
        curvature_valley_factor |-> 70, light |-> "FLAT", object_outline_color |-> 90,
        rna_type |-> "View3DShading", show_backface_culling |-> TRUE,
        show_cavity |-> TRUE, show_object_outline |-> FALSE, show_shadows |-> TRUE,
        show_specular_highlight |-> FALSE, show_xray |-> TRUE, studio_light |-> "user.sl",
        studiolight_background_alpha |-> 70, studiolight_background_blur |-> 70,
        studiolight_intensity |-> 70, studiolight_rotate_z |-> 50, type |-> "WIREFRAME",
        use_dof |-> TRUE, use_scene_lights |-> FALSE, use_scene_world |-> FALSE,
        use_studiolight_view_rotation |-> TRUE, use_world_space_lighting |-> TRUE],
     render |->
       [engine |-> "CYCLES", filepath |-> [dir |-> <<>>, name |-> <<"t", "m", "p">>],
        resolution_x |-> 800, resolution_y |-> 600, rna_type |-> "RenderSettings",
        use_file_extension |-> FALSE, use_overwrite |-> FALSE, use_placeholder |-> TRUE,
        use_render_cache |-> TRUE],
     image_settings |->
       [color_depth |-> "8", color_mode |-> "RGBA", file_format |-> "JPEG",
        rna_type |-> "ImageFormatSettings"],
     display |-> [rna_type |-> "SceneDisplay", viewport_aa |-> "OFF"],
     eevee |-> [rna_type |-> "SceneEEVEE", taa_samples |-> 64],
     overlay |-> [rna_type |-> "View3DOverlay", show_overlays |-> TRUE],
     display_settings |-> [display_device |-> "XYZ", rna_type |-> "ColorManagedDisplaySettings"],
     scene |-> [camera |-> "UserCam", frame_current |-> 5, rna_type |-> "Scene"]]

\* the ambient settings of a fresh document (solid shading, sRGB, PNG)
AmbientFresh ==
    [shading |->
       [cavity_ridge_factor |-> 100, cavity_type |-> "SCREEN", cavity_valley_factor |-> 100,
        color_type |-> "MATERIAL", curvature_ridge_factor |-> 100,
        curvature_valley_factor |-> 100, light |-> "STUDIO", object_outline_color |-> 0,
        rna_type |-> "View3DShading", show_backface_culling |-> FALSE,
        show_cavity |-> FALSE, show_object_outline |-> TRUE, show_shadows |-> FALSE,
        show_specular_highlight |-> TRUE, show_xray |-> FALSE, studio_light |-> "Default",
        studiolight_background_alpha |-> 0, studiolight_background_blur |-> 50,
        studiolight_intensity |-> 100, studiolight_rotate_z |-> 0, type |-> "SOLID",
        use_dof |-> FALSE, use_scene_lights |-> FALSE, use_scene_world |-> FALSE,
        use_studiolight_view_rotation |-> FALSE, use_world_space_lighting |-> FALSE],
     render |->
       [engine |-> "BLENDER_EEVEE", filepath |-> [dir |-> <<>>, name |-> <<"t", "m", "p">>],
        resolution_x |-> 1920, resolution_y |-> 1080, rna_type |-> "RenderSettings",
        use_file_extension |-> TRUE, use_overwrite |-> TRUE, use_placeholder |-> FALSE,
        use_render_cache |-> FALSE],
     image_settings |->
       [color_depth |-> "8", color_mode |-> "RGBA", file_format |-> "PNG",
        rna_type |-> "ImageFormatSettings"],
     display |-> [rna_type |-> "SceneDisplay", viewport_aa |-> "FXAA"],
     eevee |-> [rna_type |-> "SceneEEVEE", taa_samples |-> 16],
     overlay |-> [rna_type |-> "View3DOverlay", show_overlays |-> TRUE],
     display_settings |-> [display_device |-> "sRGB", rna_type |-> "ColorManagedDisplaySettings"],
     scene |-> [camera |-> "None", frame_current |-> 1, rna_type |-> "Scene"]]

\* a session that writes 32 bit EXR files
AmbientExr ==
    [AmbientFresh EXCEPT !.image_settings =
       [color_depth |-> "32", color_mode |-> "RGB", file_format |-> "OPEN_EXR",
        rna_type |-> "ImageFormatSettings"]]

(***************************************************************************)
(* Screenshot items (SCRSHOT_collection_property)                          *)
(***************************************************************************)
\* the property defaults, with the values the add operator fills in
ItemDefault(id, name) ==
    [id |-> id, name |-> name, saved_name |-> name, enabled |-> TRUE,
     camera_ob |-> name, cam_res_x |-> 1920, cam_res_y |-> 1080,
     render_frame |-> 0, use_subfolder |-> TRUE, subfolder_name |-> name,
     use_defaults |-> TRUE, render_type |-> "workbench", lighting_type |-> "studio",
     studio_light_name |-> "default", matcap_light_name |-> "basic_1.exr",
     eevee_light_name |-> "forest.exr", use_wsl |-> FALSE, color_type |-> "material",
     use_backface_culling |-> FALSE, use_cavity |-> FALSE, cavity_ridge |-> 0,
     cavity_valley |-> 100, curve_ridge |-> 100, curve_valley |-> 0,
     use_outline |-> TRUE, outliner_color_value |-> 0, use_spec_lighting |-> TRUE,
     use_scene_lights |-> TRUE, use_scene_world |-> TRUE, eevee_use_rotate |-> FALSE,
     eevee_intensity |-> 100, eevee_alpha |-> 0, eevee_blur |-> 50,
     studio_rotate_z |-> 0]

\* str(x).upper() of the enum identifiers the code upper-cases
Upper(x) ==
    CASE x = "studio"   -> "STUDIO"
      [] x = "matcap"   -> "MATCAP"
      [] x = "flat"     -> "FLAT"
      [] x = "material" -> "MATERIAL"
      [] x = "single"   -> "SINGLE"
      [] x = "object"   -> "OBJECT"
      [] x = "random"   -> "RANDOM"
      [] x = "vertex"   -> "VERTEX"
      [] x = "texture"  -> "TEXTURE"
      [] x = "png"      -> "PNG"
      [] x = "jpeg"     -> "JPEG"
      [] x = "open_exr" -> "OPEN_EXR"


(***************************************************************************)
(* Polls                                                                   *)
(***************************************************************************)
active_screenshot_exists(c, i) ==
    IF Len(c) = 0 THEN FALSE
    ELSE IF (i + 1) > Len(c) THEN FALSE
    ELSE TRUE

export_path_exists(f, export_path) ==
    IF ~PathExists(f, AbsPath(export_path)) /\ export_path # "//screenshots" THEN FALSE
    ELSE TRUE

poll(f, c, i, export_path) ==
    active_screenshot_exists(c, i) /\ export_path_exists(f, export_path)

(***************************************************************************)
(* Visibility isolation                                                    *)
(***************************************************************************)
ObHideStates(o) ==
    [x \in DOMAIN o |-> [render_vis   |-> o[x].hide_render,
                         viewport_vis |-> o[x].hide_viewport,
                         layer_vis    |-> o[x].hide]]

\* next(layer_traverse(coll)) raises StopIteration for a collection that has
\* no layer collection in the view layer
LayerTraverseFails(c) == \E x \in DOMAIN c : ~c[x].in_layer

CollHideStates(c) ==
    [x \in DOMAIN c |-> [render_vis   |-> c[x].hide_render,
                         viewport_vis |-> c[x].hide_viewport,
                         layer_vis    |-> c[x].layer_hide]]

ForceObjects(o, states) ==
    [x \in DOMAIN o |->
        IF states[x].render_vis
        THEN [o[x] EXCEPT !.hide_viewport = TRUE]
        ELSE [o[x] EXCEPT !.hide_viewport = FALSE, !.hide = FALSE]]

ForceCollections(c, states) ==
    [x \in DOMAIN c |->
        IF states[x].render_vis
        THEN [c[x] EXCEPT !.hide_viewport = TRUE]
        ELSE [c[x] EXCEPT !.hide_viewport = FALSE, !.layer_hide = FALSE]]

RestoreObjectsNoHideSet(o, states) ==
    [x \in DOMAIN o |-> [o[x] EXCEPT !.hide_viewport = states[x].viewport_vis]]

RestoreObjects(o, states) ==
    [x \in DOMAIN o |->
        [o[x] EXCEPT !.hide_viewport = states[x].viewport_vis,
                     !.hide = states[x].layer_vis]]

RestoreCollections(c, states) ==
    [x \in DOMAIN c |->
        [c[x] EXCEPT !.hide_viewport = states[x].viewport_vis,
                     !.layer_hide = states[x].layer_vis]]

\* bpy.ops.view3d.view_camera(): toggles between the camera view and the
\* perspective that was active before it
ViewCamera(v) ==
    IF v.view_perspective # "CAMERA"
    THEN [v EXCEPT !.lpersp = v.view_perspective, !.view_perspective = "CAMERA"]
    ELSE [v EXCEPT !.view_perspective = v.lpersp]

(***************************************************************************)
(* Settings snapshot                                                       *)
(***************************************************************************)
SavedSettings(b) ==
    [x \in {"shading", "render", "image_settings", "display", "eevee", "overlay", "scene"} |->
        CASE x = "overlay" -> [show_overlays |-> b.overlay.show_overlays]
          [] x = "scene"   -> [frame_current |-> b.scene.frame_current]
          [] OTHER         -> b[x]]

RECURSIVE RestoreAttrsAbort(_, _, _, _)
RestoreAttrsAbort(b, bag, values, names) ==
    IF names = <<>> THEN bag
    ELSE LET n == Head(names) IN
         IF n \notin DOMAIN values THEN RestoreAttrsAbort(b, bag, values, Tail(names))
         ELSE IF SetAttrOutcome(b, bag, n, values[n]) = "ok"
              THEN RestoreAttrsAbort(b, [bag EXCEPT ![n] = values[n]], values, Tail(names))
              ELSE bag

\* the inner loop of load_saved_settings: setattr of every saved value, a
\* write that raises AttributeError or TypeError is passed over
RECURSIVE RestoreAttrs(_, _, _, _)
RestoreAttrs(b, bag, values, names) ==
    IF names = <<>> THEN bag
    ELSE LET n == Head(names) IN
         IF n \notin DOMAIN values THEN RestoreAttrs(b, bag, values, Tail(names))
         ELSE IF SetAttrOutcome(b, bag, n, values[n]) = "ok"
              THEN RestoreAttrs(b, [bag EXCEPT ![n] = values[n]], values, Tail(names))
              ELSE RestoreAttrs(b, bag, values, Tail(names))

\* the writes of that loop that raised, as <<bag, attribute>> pairs
RECURSIVE SkippedAttrs(_, _, _, _)
SkippedAttrs(b, bag, values, names) ==
    IF names = <<>> THEN {}
    ELSE LET n == Head(names) IN
         IF n \notin DOMAIN values THEN SkippedAttrs(b, bag, values, Tail(names))
         ELSE IF SetAttrOutcome(b, bag, n, values[n]) = "ok"
              THEN SkippedAttrs(b, [bag EXCEPT ![n] = values[n]], values, Tail(names))
              ELSE {<<b, n>>} \cup SkippedAttrs(b, bag, values, Tail(names))

\* the outer loop of load_saved_settings followed by the manual camera sync
RestoreSettings(b, saved_settings, saved_camera) ==
    LET r == [x \in DOMAIN b |->
                IF x \in DOMAIN saved_settings
                THEN RestoreAttrs(x, b[x], saved_settings[x], DirAttrs(x))
                ELSE b[x]]
    IN  [r EXCEPT !.scene.camera = saved_camera]

SkippedWrites(b, saved_settings) ==
    UNION {SkippedAttrs(x, b[x], saved_settings[x], DirAttrs(x)) : x \in DOMAIN saved_settings}

(***************************************************************************)
(* Ambient settings of the batch and per-item resolution                   *)
(***************************************************************************)
HandleMiscSettBags(b, format_type) ==
    LET img1 == [b.image_settings EXCEPT !.color_mode = "RGB",
                                         !.file_format = Upper(format_type)]
        img2 == IF format_type # "jpeg" THEN [img1 EXCEPT !.color_depth = "16"] ELSE img1
    IN  [b EXCEPT !.display.viewport_aa = "FXAA",
                  !.eevee.taa_samples = 16,
                  !.overlay.show_overlays = FALSE,
                  !.shading.use_dof = FALSE,
                  !.shading.show_xray = FALSE,
                  !.shading.show_shadows = FALSE,
                  !.display_settings.display_device = "sRGB",
                  !.render.use_file_extension = TRUE,
                  !.render.use_render_cache = FALSE,
                  !.render.use_overwrite = TRUE,
                  !.render.use_placeholder = FALSE,
                  !.image_settings = img2]

WorkbenchShading(sh, it) ==
    LET s1 == [sh EXCEPT !.light = Upper(it.lighting_type)]
        s2 == IF it.lighting_type = "studio"
              THEN [s1 EXCEPT !.use_world_space_lighting = it.use_wsl,
                              !.studiolight_rotate_z = it.studio_rotate_z,
                              !.studio_light = it.studio_light_name]
              ELSE IF it.lighting_type = "matcap"
              THEN [s1 EXCEPT !.studio_light = it.matcap_light_name]
              ELSE s1
    IN  [s2 EXCEPT !.show_backface_culling = it.use_backface_culling,
                   !.show_object_outline = it.use_outline,
                   !.show_cavity = it.use_cavity,
                   !.show_specular_highlight = it.use_spec_lighting,
                   !.cavity_type = "BOTH",
                   !.cavity_ridge_factor = it.cavity_ridge,
                   !.cavity_valley_factor = it.cavity_valley,
                   !.curvature_ridge_factor = it.curve_ridge,
                   !.curvature_valley_factor = it.curve_valley,
                   !.object_outline_color = it.outliner_color_value,
                   !.color_type = Upper(it.color_type)]

EeveeShading(sh, it) ==
    [sh EXCEPT !.use_scene_lights = it.use_scene_lights,
               !.use_scene_world = it.use_scene_world,
               !.studio_light = it.eevee_light_name,
               !.use_studiolight_view_rotation = it.eevee_use_rotate,
               !.studiolight_rotate_z = it.studio_rotate_z,
               !.studiolight_intensity = it.eevee_intensity,
               !.studiolight_background_alpha = it.eevee_alpha,
               !.studiolight_background_blur = it.eevee_blur]

\* handle_user_settings, given the path that handle_path_formatting returned
HandleUserSettings(b, it, filepath) ==
    LET b1 == [b EXCEPT !.scene.frame_current = it.render_frame,
                        !.render.filepath = filepath,
                        !.scene.camera = it.camera_ob,
                        !.render.resolution_x = it.cam_res_x,
                        !.render.resolution_y = it.cam_res_y]
    IN  IF it.render_type = "workbench"
        THEN LET b2 == [b1 EXCEPT !.shading.type = "SOLID"] IN
             IF it.use_defaults THEN b2
             ELSE [b2 EXCEPT !.shading = WorkbenchShading(b2.shading, it)]
        ELSE LET b2 == [b1 EXCEPT !.render.engine = "BLENDER_EEVEE",
                                  !.shading.type = "MATERIAL"] IN
             IF it.use_defaults THEN b2
             ELSE [b2 EXCEPT !.shading = EeveeShading(b2.shading, it)]

RenderedScreenshotsAll(c) == [i \in 1..Len(c) |-> i]

\* positions (1-based) of the items of the list comprehension over the
\* enabled items
RECURSIVE EnabledPositions(_, _)
EnabledPositions(c, from) ==
    IF from > Len(c) THEN <<>>
    ELSE IF c[from].enabled THEN <<from>> \o EnabledPositions(c, from + 1)
    ELSE EnabledPositions(c, from + 1)

RenderedScreenshots(c) == EnabledPositions(c, 1)

\* position (1-based) of scrshot_camera_coll[scrshot_camera_index]
ActivePosition(c, i) == IF i < 0 THEN Len(c) + i + 1 ELSE i + 1


(***************************************************************************)
(* The render operator, SCRSHOT_OT_render_screenshots                      *)
(***************************************************************************)
OpIdle ==
    [render_type |-> "enabled", saved_area_type |-> "None", saved_settings |-> <<>>,
     saved_camera |-> "None", switch_cam |-> FALSE, local_view |-> FALSE,
     report_string |-> "", ob_hide_states |-> <<>>, coll_hide_states |-> <<>>,
     rendered_screenshots |-> <<>>, i |-> 1, render_count |-> 0]

MidNone == [forced |-> FALSE, obs |-> <<>>, colls |-> <<>>,
            restored |-> FALSE, skipped |-> {}, undo_area |-> "None"]

PvNone == [called |-> FALSE, before |-> {}, dir |-> <<>>, stem |-> <<>>,
           ext |-> "png", out |-> <<>>]

Shared == [bags |-> bags, view |-> view, obs |-> obs, colls |-> colls]

PreState(rt) ==
    [bags |-> bags, view |-> view, obs |-> obs, colls |-> colls, fs |-> fs,
     coll |-> coll, index |-> index, sett |-> sett, blend_saved |-> blend_saved,
     render_type |-> rt]

HistEntry(res, count, rend, p, after, f) ==
    [result |-> res, count |-> count, renders |-> rend, pre |-> p,
     after |-> after, fs |-> f]

\* the operator is not run: its poll fails
PollFail(rt) ==
    /\ pc = "idle"
    /\ runs < MaxRuns
    /\ ~poll(fs, coll, index, sett.export_path)
    /\ runs' = runs + 1
    /\ result' = "POLL_FAILED"
    /\ pre' = PreState(rt)
    /\ renders' = <<>>
    /\ mid' = MidNone
    /\ history' = Append(history, HistEntry("POLL_FAILED", 0, <<>>, PreState(rt), Shared, fs))
    /\ UNCHANGED <<fs, blend_saved, sett, coll, index, bags, view, obs, colls, op, pc,
                   report, pv,
                   itemVars, samplerVars, saveVars, encVars>>

\* an execute that checks for the saved document after the mkdir
ExecuteUnsavedAfterMkdir(rt) ==
    /\ pc = "idle"
    /\ runs < MaxRuns
    /\ poll(fs, coll, index, sett.export_path)
    /\ ~blend_saved
    /\ runs' = runs + 1
    /\ report' = [level |-> "ERROR", count |-> 0, info |-> "",
                  text |-> "Please save a blender file before recording screenshots"]
    /\ result' = "CANCELLED"
    /\ pre' = PreState(rt)
    /\ renders' = <<>>
    /\ mid' = MidNone
    /\ fs' = Mkdir(fs, ScreenshotsDir)
    /\ history' = Append(history, HistEntry("CANCELLED", 0, <<>>, PreState(rt), Shared, fs))
    /\ UNCHANGED <<blend_saved, sett, coll, index, bags, view, obs, colls, op, pc, pv,
                   itemVars, samplerVars, saveVars, encVars>>

\* execute on a document that was never saved
ExecuteUnsaved(rt) ==
    /\ pc = "idle"
    /\ runs < MaxRuns
    /\ poll(fs, coll, index, sett.export_path)
    /\ ~blend_saved
    /\ runs' = runs + 1
    /\ report' = [level |-> "ERROR", count |-> 0, info |-> "",
                  text |-> "Please save a blender file before recording screenshots"]
    /\ result' = "CANCELLED"
    /\ pre' = PreState(rt)
    /\ renders' = <<>>
    /\ mid' = MidNone
    /\ history' = Append(history, HistEntry("CANCELLED", 0, <<>>, PreState(rt), Shared, fs))
    /\ UNCHANGED <<fs, blend_saved, sett, coll, index, bags, view, obs, colls, op, pc, pv,
                   itemVars, samplerVars, saveVars, encVars>>

\* execute up to and including get_space_data
Execute(rt) ==
    /\ pc = "idle"
    /\ runs < MaxRuns
    /\ poll(fs, coll, index, sett.export_path)
    /\ blend_saved
    /\ runs' = runs + 1
    /\ pre' = PreState(rt)
    /\ renders' = <<>>
    /\ mid' = MidNone
    /\ fs' = Mkdir(fs, ScreenshotsDir)
    /\ IF view.area_type # "VIEW_3D"
       THEN /\ op' = [OpIdle EXCEPT !.render_type = rt, !.saved_area_type = view.area_type]
            /\ view' = [view EXCEPT !.area_type = "VIEW_3D"]
       ELSE /\ op' = [OpIdle EXCEPT !.render_type = rt]
            /\ view' = view
    /\ pc' = "hide"
    /\ UNCHANGED <<blend_saved, sett, coll, index, bags, obs, colls, result, report,
                   history, pv,
                   itemVars, samplerVars, saveVars, encVars>>

\* get_set_hidden_objects
GetSetHiddenObjects ==
    /\ pc = "hide"
    /\ ~LayerTraverseFails(colls)
    /\ LET ob_hide_states   == ObHideStates(obs)
           coll_hide_states == CollHideStates(colls)
       IN  /\ op' = [op EXCEPT !.ob_hide_states = ob_hide_states,
                               !.coll_hide_states = coll_hide_states,
                               !.local_view = view.local_view,
                               !.report_string = IF view.local_view
                                                 THEN "Local View exited to render"
                                                 ELSE ""]
           /\ view' = [view EXCEPT !.local_view = FALSE]
           /\ obs' = ForceObjects(obs, ob_hide_states)
           /\ colls' = ForceCollections(colls, coll_hide_states)
           /\ mid' = [mid EXCEPT !.forced = TRUE,
                                 !.obs = ForceObjects(obs, ob_hide_states),
                                 !.colls = ForceCollections(colls, coll_hide_states)]
    /\ pc' = "save"
    /\ UNCHANGED <<fs, blend_saved, sett, coll, index, bags, result, report, pre, renders,
                   history, runs, pv,
                   itemVars, samplerVars, saveVars, encVars>>

\* get_set_hidden_objects leaves with StopIteration; the exception leaves execute
GetSetHiddenObjectsRaise ==
    /\ pc = "hide"
    /\ LayerTraverseFails(colls)
    /\ result' = "RAISED_HIDE"
    /\ history' = Append(history, HistEntry("RAISED_HIDE", 0, renders, pre, Shared, fs))
    /\ op' = OpIdle
    /\ pc' = "idle"
    /\ UNCHANGED <<fs, blend_saved, sett, coll, index, bags, view, obs, colls, report, pre,
                   mid, renders, runs, pv,
                   itemVars, samplerVars, saveVars, encVars>>

\* save_settings
SaveSettings ==
    /\ pc = "save"
    /\ op' = [op EXCEPT !.saved_settings = SavedSettings(bags),
                        !.saved_camera = bags.scene.camera]
    /\ pc' = "misc"
    /\ UNCHANGED <<fs, blend_saved, sett, coll, index, bags, view, obs, colls, result,
                   report, pre, mid, renders, history, runs, pv,
                   itemVars, samplerVars, saveVars, encVars>>

\* handle_misc_sett
HandleMiscSett ==
    /\ pc = "misc"
    /\ bags' = HandleMiscSettBags(bags, sett.format_type)
    /\ IF view.view_perspective # "CAMERA"
       THEN /\ op' = [op EXCEPT !.switch_cam = TRUE]
            /\ view' = ViewCamera(view)
       ELSE /\ op' = [op EXCEPT !.switch_cam = FALSE]
            /\ view' = view
    /\ pc' = "render"
    /\ UNCHANGED <<fs, blend_saved, sett, coll, index, obs, colls, result, report, pre, mid,
                   renders, history, runs, pv,
                   itemVars, samplerVars, saveVars, encVars>>

\* render_screenshot: the list of items to render
RenderScreenshot ==
    /\ pc = "render"
    /\ op' = [op EXCEPT !.rendered_screenshots =
                 IF op.render_type = "enabled" THEN RenderedScreenshots(coll)
                 ELSE <<ActivePosition(coll, index)>>,
                        !.i = 1]
    /\ pc' = "loop"
    /\ UNCHANGED <<fs, blend_saved, sett, coll, index, bags, view, obs, colls, result,
                   report, pre, mid, renders, history, runs, pv,
                   itemVars, samplerVars, saveVars, encVars>>

\* one turn of the loop: handle_user_settings, then bpy.ops.render.opengl
RenderItem ==
    /\ pc = "loop"
    /\ op.i <= Len(op.rendered_screenshots)
    /\ LET pos  == op.rendered_screenshots[op.i]
           it   == coll[pos]
           root == AbsPath(sett.export_path)
           d    == Parent(root \o PathEnd(it))
       IN  /\ MkdirOk(fs, d)
           /\ LET f1   == Mkdir(fs, d)
                  path == HandlePathFormatting(f1, root, it, sett.format_type)
              IN  /\ bags' = HandleUserSettings(bags, it, path)
                  /\ fs' = f1 \cup {[dir |-> path.dir, name |-> path.name, isfile |-> TRUE]}
                  /\ renders' = Append(renders,
                        [pos |-> pos, name |-> it.name, path |-> path,
                         existed |-> IsFile(f1, path.dir, path.name),
                         shading |-> HandleUserSettings(bags, it, path).shading])
    /\ op' = [op EXCEPT !.i = op.i + 1]
    /\ UNCHANGED <<blend_saved, sett, coll, index, view, obs, colls, pc, result, report, pre,
                   mid, history, runs, pv,
                   itemVars, samplerVars, saveVars, encVars>>

\* one turn of the loop in which the mkdir of handle_path_formatting or the
\* render primitive raises; the exception leaves execute
RenderRaise ==
    /\ pc = "loop"
    /\ op.i <= Len(op.rendered_screenshots)
    /\ LET pos  == op.rendered_screenshots[op.i]
           it   == coll[pos]
           root == AbsPath(sett.export_path)
           d    == Parent(root \o PathEnd(it))
       IN  IF MkdirOk(fs, d)
           THEN LET f1   == Mkdir(fs, d)
                    path == HandlePathFormatting(f1, root, it, sett.format_type)
                    b1   == HandleUserSettings(bags, it, path)
                IN  /\ bags' = b1
                    /\ fs' = f1
                    /\ history' = Append(history,
                          HistEntry("RAISED_RENDER", 0, renders, pre,
                                    [bags |-> b1, view |-> view, obs |-> obs, colls |-> colls],
                                    f1))
           ELSE /\ bags' = bags
                /\ fs' = fs
                /\ history' = Append(history,
                      HistEntry("RAISED_RENDER", 0, renders, pre, Shared, fs))
    /\ result' = "RAISED_RENDER"
    /\ op' = OpIdle
    /\ pc' = "idle"
    /\ UNCHANGED <<blend_saved, sett, coll, index, view, obs, colls, report, pre, mid,
                   renders, runs, pv,
                   itemVars, samplerVars, saveVars, encVars>>

\* render_screenshot returns the count
RenderReturn ==
    /\ pc = "loop"
    /\ op.i > Len(op.rendered_screenshots)
    /\ op' = [op EXCEPT !.render_count =
                 IF op.render_type = "enabled" THEN Len(op.rendered_screenshots) ELSE 1]
    /\ pc' = "load"
    /\ UNCHANGED <<fs, blend_saved, sett, coll, index, bags, view, obs, colls, result,
                   report, pre, mid, renders, history, runs, pv,
                   itemVars, samplerVars, saveVars, encVars>>

\* load_saved_settings. The closing view_camera call runs after the area type
\* was put back: outside a 3D view the host either runs it or refuses it
\* (RuntimeError), and then the exception leaves execute.
LoadSavedSettings ==
    /\ pc = "load"
    /\ LET v1 == IF op.saved_area_type # "None"
                 THEN [view EXCEPT !.area_type = op.saved_area_type]
                 ELSE view
           b1 == RestoreSettings(bags, op.saved_settings, op.saved_camera)
           o1 == RestoreObjects(obs, op.ob_hide_states)
           c1 == RestoreCollections(colls, op.coll_hide_states)
           m1 == [mid EXCEPT !.restored = TRUE,
                             !.skipped = SkippedWrites(bags, op.saved_settings),
                             !.undo_area = IF op.switch_cam THEN v1.area_type
                                           ELSE "None"]
       IN  /\ bags' = b1
           /\ obs' = o1
           /\ colls' = c1
           /\ mid' = m1
           /\ \/ /\ op.switch_cam
                 /\ view' = ViewCamera(v1)
                 /\ pc' = "report"
                 /\ UNCHANGED <<op, result, history>>
              \/ /\ ~op.switch_cam
                 /\ view' = v1
                 /\ pc' = "report"
                 /\ UNCHANGED <<op, result, history>>
              \/ /\ op.switch_cam
                 /\ v1.area_type # "VIEW_3D"
                 /\ view' = v1
                 /\ pc' = "idle"
                 /\ op' = OpIdle
                 /\ result' = "RAISED_LOAD"
                 /\ history' = Append(history,
                       HistEntry("RAISED_LOAD", 0, renders, pre,
                                 [bags |-> b1, view |-> v1, obs |-> o1, colls |-> c1], fs))
    /\ UNCHANGED <<fs, blend_saved, sett, coll, index, report, pre, renders, runs, pv,
                   itemVars, samplerVars, saveVars, encVars>>

\* the closing report of execute
Report ==
    /\ pc = "report"
    /\ report' = IF op.report_string # ""
                 THEN [level |-> "WARNING", count |-> op.render_count,
                       info |-> op.report_string, text |-> "Screenshot(s) Rendered!"]
                 ELSE [level |-> "INFO", count |-> op.render_count, info |-> "",
                       text |-> "Screenshot(s) Rendered!"]
    /\ result' = "FINISHED"
    /\ history' = Append(history,
          HistEntry("FINISHED", op.render_count, renders, pre, Shared, fs))
    /\ op' = OpIdle
    /\ pc' = "idle"
    /\ UNCHANGED <<fs, blend_saved, sett, coll, index, bags, view, obs, colls, pre, mid,
                   renders, runs, pv,
                   itemVars, samplerVars, saveVars, encVars>>


(***************************************************************************)
(* Path versioner on its own (stills and video / GIF outputs)              *)
(***************************************************************************)
\* handle_path_formatting for an item named stem, then the file is written
PathStill(stem, format_type) ==
    /\ pc = "path"
    /\ runs < MaxCalls
    /\ LET it  == [ItemDefault(0, stem) EXCEPT !.use_subfolder = FALSE]
           out == HandlePathFormatting(fs, ShotsDir, it, format_type)
       IN  /\ pv' = [called |-> TRUE, before |-> fs, dir |-> out.dir, stem |-> stem,
                     ext |-> FileFormat(format_type), out |-> out.name]
           /\ fs' = fs \cup {[dir |-> out.dir, name |-> out.name, isfile |-> TRUE]}
    /\ runs' = runs + 1
    /\ UNCHANGED <<blend_saved, sett, coll, index, bags, view, obs, colls, op, pc, result,
                   report, pre, mid, renders, history,
                   itemVars, samplerVars, saveVars, encVars>>

\* handle_path_formatting_mp4 for an input path ending in stem, then the
\* encoder writes the file
PathMp4(stem, mp4_format_type) ==
    /\ pc = "path"
    /\ runs < MaxCalls
    /\ LET out == HandlePathFormattingMp4(fs, ShotsDir \o <<stem>>, mp4_format_type)
       IN  /\ pv' = [called |-> TRUE, before |-> fs, dir |-> out.dir, stem |-> stem,
                     ext |-> mp4_format_type, out |-> out.name]
           /\ fs' = fs \cup {[dir |-> out.dir, name |-> out.name, isfile |-> TRUE]}
    /\ runs' = runs + 1
    /\ UNCHANGED <<blend_saved, sett, coll, index, bags, view, obs, colls, op, pc, result,
                   report, pre, mid, renders, history,
                   itemVars, samplerVars, saveVars, encVars>>

(***************************************************************************)
(* bpy.data and the item list: add, rename, delete, the active index        *)
(***************************************************************************)
Range(q) == {q[i] : i \in 1..Len(q)}

\* a document before the first item is added: the user's own mesh, whose
\* screenshot_id is the StringProperty default ''; uid is the last object
\* identity handed out, linked the objects of the add-on's camera collection
DataNone ==
    [objects |-> <<[uid |-> 1, type |-> "MESH", screenshot_id |-> <<>>]>>,
     cameras |-> <<>>, cam_coll |-> FALSE, linked |-> {}, uid |-> 1]

\* record_on_save after registration and the module global old_time
SaverNone == [record_on_save |-> FALSE, old_time |-> 0]

LastNone ==
    [op |-> "none", pos |-> 0, arg |-> <<>>, ok |-> FALSE,
     coll |-> <<>>, bdata |-> DataNone, index |-> 0, popups |-> 0,
     record |-> FALSE, autos |-> 0]

\* what the last item operation started from
LastOp(o, pos, arg, ok) ==
    [op |-> o, pos |-> pos, arg |-> arg, ok |-> ok,
     coll |-> coll, bdata |-> bdata, index |-> index, popups |-> Len(popup),
     record |-> saver.record_on_save, autos |-> Len(autos)]

\* the subsequence of q whose elements satisfy keep
RECURSIVE SelectSeqBy(_, _)
SelectSeqBy(q, keep) ==
    IF q = <<>> THEN <<>>
    ELSE IF Head(q) \in keep THEN <<Head(q)>> \o SelectSeqBy(Tail(q), keep)
         ELSE SelectSeqBy(Tail(q), keep)

\* c[i] of a bpy collection: a negative index counts from the end; 0 when
\* the access raises IndexError, else the position (from 1)
PyIndex(c, i) ==
    IF i >= 0 /\ i < Len(c) THEN i + 1
    ELSE IF i < 0 /\ i >= 0 - Len(c) THEN Len(c) + i + 1
    ELSE 0

\* f'screenshot_{idx_count}'
ScreenshotName(n) ==
    <<"s", "c", "r", "e", "e", "n", "s", "h", "o", "t", "_">> \o NatDigits(n)

ItemNames(c) == {c[i].name : i \in 1..Len(c)}

\* the first idx_count from 1 whose name is not in the collection
FreshIndex(c) ==
    CHOOSE n \in 1..(Len(c) + 1) :
        /\ ScreenshotName(n) \notin ItemNames(c)
        /\ \A m \in 1..(n - 1) : ScreenshotName(m) \in ItemNames(c)

\* item_name_count of name_conflict_handling
NameCount(c, name) == Cardinality({i \in 1..Len(c) : c[i].name = name})

\* the identifier renaming loops of name_conflict_handling
RenameIdentifiers(d, old, new) ==
    [d EXCEPT
       !.objects = [k \in DOMAIN @ |->
                      IF @[k].screenshot_id = old /\ @[k].type = "CAMERA"
                      THEN [@[k] EXCEPT !.screenshot_id = new] ELSE @[k]],
       !.cameras = [k \in DOMAIN @ |->
                      IF @[k].screenshot_id = old
                      THEN [@[k] EXCEPT !.screenshot_id = new] ELSE @[k]]]

\* name_conflict_handling when the name does not repeat
NameAccepted(c, pos, d) ==
    [coll  |-> [c EXCEPT ![pos].saved_name = c[pos].name],
     bdata |-> IF c[pos].saved_name # <<>>
               THEN RenameIdentifiers(d, c[pos].saved_name, c[pos].name)
               ELSE d]

\* a handler that lets a repeated name through
NameConflictHandlingAcceptAll(c, pos, d) ==
    [coll |-> NameAccepted(c, pos, d).coll, bdata |-> NameAccepted(c, pos, d).bdata,
     warned |-> FALSE, raised |-> FALSE]

\* name_conflict_handling, the update callback of item.name, run after the
\* new name was written to c[pos]. Writing the saved name back runs the
\* callback once more for the restored name; the restored name repeating
\* as well would recurse without end (raised).
NameConflictHandling(c, pos, d) ==
    IF NameCount(c, c[pos].name) > 1
    THEN LET c1 == [c EXCEPT ![pos].name = c[pos].saved_name]
         IN  IF NameCount(c1, c1[pos].name) > 1
             THEN [coll |-> c1, bdata |-> d, warned |-> FALSE, raised |-> TRUE]
             ELSE [coll |-> NameAccepted(c1, pos, d).coll,
                   bdata |-> NameAccepted(c1, pos, d).bdata,
                   warned |-> TRUE, raised |-> FALSE]
    ELSE [coll |-> NameAccepted(c, pos, d).coll, bdata |-> NameAccepted(c, pos, d).bdata,
          warned |-> FALSE, raised |-> FALSE]

\* create_coll_and_cam followed by match_screenshot_id: a camera object and
\* its camera data named after the item, linked to the camera collection
CreateCollAndCam(d, name) ==
    [d EXCEPT
       !.objects  = Append(@, [uid |-> d.uid + 1, type |-> "CAMERA", screenshot_id |-> name]),
       !.cameras  = Append(@, [uid |-> d.uid + 1, screenshot_id |-> name]),
       !.cam_coll = TRUE,
       !.linked   = @ \cup {d.uid + 1},
       !.uid      = d.uid + 1]

\* SCRSHOT_OT_add_screenshot_item.execute
AddScreenshotItem ==
    /\ pc = "items"
    /\ runs < MaxOps
    /\ Len(coll) < MaxItems
    /\ LET name == ScreenshotName(FreshIndex(coll))
           item == [ItemDefault(Len(coll), name) EXCEPT
                      !.cam_res_x = bags.render.resolution_x,
                      !.cam_res_y = bags.render.resolution_y,
                      !.camera_ob = bdata.uid + 1]
       IN  /\ coll' = Append(coll, item)
           /\ bdata' = CreateCollAndCam(bdata, name)
           /\ bags' = [bags EXCEPT !.scene.camera = bdata.uid + 1]
           /\ view' = IF view.view_perspective # "CAMERA" THEN ViewCamera(view) ELSE view
           /\ index' = Len(coll)
           /\ last' = LastOp("add", Len(coll) + 1, name, TRUE)
    /\ runs' = runs + 1
    /\ UNCHANGED <<fs, blend_saved, sett, obs, colls, op, pc, result, report, pre, mid,
                   renders, history, pv, popup, samplerVars, saveVars, encVars>>

\* the user types a new name into the item's name field
RenameItem(pos, new) ==
    /\ pc = "items"
    /\ runs < MaxOps
    /\ pos \in 1..Len(coll)
    /\ LET r == NameConflictHandling([coll EXCEPT ![pos].name = new], pos, bdata)
       IN  /\ ~r.raised
           /\ coll' = r.coll
           /\ bdata' = r.bdata
           /\ popup' = IF r.warned
                       THEN Append(popup, "You cannot use repeating screenshot names.")
                       ELSE popup
           /\ last' = LastOp("rename", pos, new, ~r.warned)
    /\ runs' = runs + 1
    /\ UNCHANGED <<fs, blend_saved, sett, index, bags, view, obs, colls, op, pc, result,
                   report, pre, mid, renders, history, pv, samplerVars, saveVars, encVars>>

\* bpy_prop_collection.remove(key): a key outside 0..len-1 removes nothing
CollRemove(c, key) ==
    IF key >= 0 /\ key < Len(c)
    THEN [k \in 1..(Len(c) - 1) |-> IF k <= key THEN c[k] ELSE c[k + 1]]
    ELSE c

\* the removal loops of the delete operator and the removal of the camera
\* collection once the list is empty
RemoveByIdentifier(d, name, emptied) ==
    LET keepObs  == {o \in Range(d.objects) : o.screenshot_id # name}
        keepCams == {c \in Range(d.cameras) : c.screenshot_id # name}
        left     == {o.uid : o \in keepObs}
    IN  [d EXCEPT
           !.objects  = SelectSeqBy(@, keepObs),
           !.cameras  = SelectSeqBy(@, keepCams),
           !.linked   = IF emptied /\ d.cam_coll THEN {} ELSE @ \cap left,
           !.cam_coll = IF emptied THEN FALSE ELSE @]

\* the index adjustment that closes the delete operator
IndexAfterDelete(camera_index, len) ==
    IF camera_index + 1 > len THEN camera_index - 1 ELSE camera_index

\* SCRSHOT_OT_delete_screenshot_item.execute
DeleteScreenshotItem ==
    /\ pc = "items"
    /\ runs < MaxOps
    /\ LET pos == PyIndex(coll, index)
           c1  == IF pos = 0 THEN coll ELSE CollRemove(coll, index)
       IN  /\ coll' = c1
           /\ bdata' = IF pos = 0 THEN bdata
                       ELSE RemoveByIdentifier(bdata, coll[pos].name, Len(c1) = 0)
           /\ index' = IndexAfterDelete(index, Len(c1))
           /\ last' = LastOp("delete", pos, IF pos = 0 THEN <<>> ELSE coll[pos].name,
                             Len(c1) < Len(coll))
    /\ runs' = runs + 1
    /\ UNCHANGED <<fs, blend_saved, sett, bags, view, obs, colls, op, pc, result, report,
                   pre, mid, renders, history, pv, popup, samplerVars, saveVars, encVars>>

\* the user clicks a row of the item list (template_list)
SelectRow(i) ==
    /\ pc = "items"
    /\ runs < MaxOps
    /\ i \in 0..(Len(coll) - 1)
    /\ index' = i
    /\ last' = LastOp("select", i + 1, <<>>, TRUE)
    /\ runs' = runs + 1
    /\ UNCHANGED <<fs, blend_saved, sett, coll, bags, view, obs, colls, op, pc, result,
                   report, pre, mid, renders, history, pv, bdata, popup, samplerVars,
                   saveVars, encVars>>

\* SCRSHOT_OT_select_and_preview.execute for the item at position pos, looked
\* up by its name; ok is false when the item's camera object is gone and the
\* closing camera_ob.hide_select raises
SelectAndPreview(pos, preview_cam) ==
    /\ pc = "items"
    /\ runs < MaxOps
    /\ active_screenshot_exists(coll, index)
    /\ pos \in 1..Len(coll)
    /\ \A k \in 1..(pos - 1) : coll[k].name # coll[pos].name
    /\ LET it == coll[pos]
       IN  /\ IF preview_cam
              THEN /\ bags' = [bags EXCEPT !.scene.camera = it.camera_ob,
                                           !.render.resolution_x = it.cam_res_x,
                                           !.render.resolution_y = it.cam_res_y]
                   /\ view' = IF view.view_perspective # "CAMERA"
                              THEN ViewCamera(view) ELSE view
              ELSE UNCHANGED <<bags, view>>
           /\ index' = IF Len(coll) > it.id THEN it.id ELSE index
           /\ last' = LastOp("select_and_preview", pos, it.name,
                             \E o \in Range(bdata.objects) : o.uid = it.camera_ob)
    /\ runs' = runs + 1
    /\ UNCHANGED <<fs, blend_saved, sett, coll, obs, colls, op, pc, result, report, pre,
                   mid, renders, history, pv, bdata, popup, samplerVars, saveVars, encVars>>

\* a document is loaded whose stored index lies past the end of its list
LoadStaleIndex(i) ==
    /\ pc = "items"
    /\ runs < MaxOps
    /\ i >= Len(coll)
    /\ index' = i
    /\ last' = LastOp("load", 0, <<>>, TRUE)
    /\ runs' = runs + 1
    /\ UNCHANGED <<fs, blend_saved, sett, coll, bags, view, obs, colls, op, pc, result,
                   report, pre, mid, renders, history, pv, bdata, popup, samplerVars,
                   saveVars, encVars>>

\* the index get_active_scrshot leaves behind
ResolvedIndex(c, i) == IF PyIndex(c, i) = 0 THEN -1 ELSE i

\* get_active_scrshot, called by the panels while the list has items
GetActiveScrshot ==
    /\ pc = "items"
    /\ runs < MaxOps
    /\ Len(coll) > 0
    /\ index' = ResolvedIndex(coll, index)
    /\ last' = LastOp("resolve", PyIndex(coll, index'), <<>>, PyIndex(coll, index) # 0)
    /\ runs' = runs + 1
    /\ UNCHANGED <<fs, blend_saved, sett, coll, bags, view, obs, colls, op, pc, result,
                   report, pre, mid, renders, history, pv, bdata, popup, samplerVars,
                   saveVars, encVars>>

(***************************************************************************)
(* Light rotation sampler (SCRSHOT_OT_sample_studio_light_rotation)        *)
(* Angles are integers in millionths of a radian.                          *)
(***************************************************************************)
\* the rotation one pixel of pointer travel adds (offset * .0075)
RotateStep == 7500

\* the bound the modal handler compares with and wraps to (3.141592)
WrapBound == 3141592

\* the largest rotation the shading and item properties store (pi)
RotateMax == 3141593

\* the value a rotation property stores when v is assigned to it
ClampRotation(v) ==
    IF v > RotateMax THEN RotateMax
    ELSE IF v < 0 - RotateMax THEN 0 - RotateMax
    ELSE v

\* round(a / b) for b > 0, halves to the even neighbour
RoundDiv(a, b) ==
    LET q == (2 * a + b) \div (2 * b)
    IN  IF (2 * a + b) % (2 * b) = 0 /\ q % 2 = 1 THEN q - 1 ELSE q

HeaderNone == [text |-> "None", value |-> 0]

\* f"Light Rotation Sample: {round(...)}"
HeaderText(n) == [text |-> "Light Rotation Sample", value |-> n]

\* round(rotation * 180 / 3.14159265359)
Degrees(rot) == RoundDiv(rot * 180, RotateMax)

\* no sampler running; entry, r0, r1, moves, prev and offset are history:
\* the shading and the item rotation at invoke, the rotation last dragged
\* to, the number of moves, the rotation before and the travel of the last
SamplerNone ==
    [state |-> "Idle", light_type |-> "workbench", pos |-> 0, cursor |-> "DEFAULT",
     saved_type |-> "", saved_light |-> "", saved_use_wsl |-> FALSE,
     saved_studiolight_rot_z |-> 0, saved_use_scene_world |-> FALSE,
     saved_use_studiolight_view_rotation |-> FALSE, saved_item_rotate_z |-> 0,
     entry |-> AmbientFresh.shading, r0 |-> 0, r1 |-> 0, moves |-> 0, prev |-> 0,
     offset |-> 0]

\* the MOUSEMOVE arithmetic of modal: add the pointer travel, then wrap
ModalRotate(rot, offset) ==
    LET r == ClampRotation(rot + offset * RotateStep)
    IN  IF r <= 0 - WrapBound THEN WrapBound
        ELSE IF r >= WrapBound THEN 0 - WrapBound
        ELSE r

\* a restore that forgets the scene world toggle
SamplerExecuteNoWorld(sh, s) ==
    [sh EXCEPT !.type = s.saved_type,
               !.light = s.saved_light,
               !.use_world_space_lighting = s.saved_use_wsl,
               !.studiolight_rotate_z = s.saved_studiolight_rot_z,
               !.use_studiolight_view_rotation = s.saved_use_studiolight_view_rotation]

\* execute: write the saved fields back to the viewport shading
SamplerExecute(sh, s) ==
    [sh EXCEPT !.type = s.saved_type,
               !.light = s.saved_light,
               !.use_world_space_lighting = s.saved_use_wsl,
               !.studiolight_rotate_z = s.saved_studiolight_rot_z,
               !.use_scene_world = s.saved_use_scene_world,
               !.use_studiolight_view_rotation = s.saved_use_studiolight_view_rotation]

\* a cancel that keeps the dragged rotation
CancelRotationKeep(current, saved) == current

\* the item rotation the RIGHTMOUSE / ESC branch writes
CancelRotation(current, saved) == saved

\* invoke
SamplerInvoke(light_type) ==
    /\ pc = "sampler"
    /\ smp.state = "Idle"
    /\ PyIndex(coll, index) # 0
    /\ LET pos == PyIndex(coll, index)
           sh  == bags.shading
           s1  == IF light_type = "workbench"
                  THEN [sh EXCEPT !.type = "SOLID", !.light = "STUDIO",
                                  !.use_world_space_lighting = TRUE]
                  ELSE [sh EXCEPT !.type = "MATERIAL", !.use_scene_world = FALSE,
                                  !.use_studiolight_view_rotation = TRUE]
           r0  == coll[pos].studio_rotate_z
           s2  == IF r0 # 0 THEN [s1 EXCEPT !.studiolight_rotate_z = ClampRotation(r0)]
                  ELSE s1
           c1  == IF r0 # 0 THEN coll
                  ELSE [coll EXCEPT ![pos].studio_rotate_z = s1.studiolight_rotate_z]
       IN  /\ smp' = [state |-> "Sampling", light_type |-> light_type, pos |-> pos,
                      cursor |-> "MOVE_X",
                      saved_type |-> sh.type, saved_light |-> sh.light,
                      saved_use_wsl |-> sh.use_world_space_lighting,
                      saved_studiolight_rot_z |-> sh.studiolight_rotate_z,
                      saved_use_scene_world |-> sh.use_scene_world,
                      saved_use_studiolight_view_rotation |->
                          sh.use_studiolight_view_rotation,
                      saved_item_rotate_z |-> r0,
                      entry |-> sh, r0 |-> r0, r1 |-> c1[pos].studio_rotate_z,
                      moves |-> 0, prev |-> 0, offset |-> 0]
           /\ bags' = [bags EXCEPT !.shading = s2]
           /\ coll' = c1
           /\ header' = HeaderText(RoundDiv(c1[pos].studio_rotate_z, 1000000))
    /\ UNCHANGED <<fs, blend_saved, sett, index, view, obs, colls, op, pc, result, report,
                   pre, mid, renders, history, runs, pv, itemVars, saveVars, encVars>>

\* modal, event MOUSEMOVE with mouse_x - mouse_prev_x = offset
SamplerMouseMove(offset) ==
    /\ pc = "sampler"
    /\ smp.state = "Sampling"
    /\ smp.moves < MaxMoves
    /\ LET rot == ModalRotate(bags.shading.studiolight_rotate_z, offset)
       IN  /\ bags' = [bags EXCEPT !.shading.studiolight_rotate_z = rot]
           /\ coll' = [coll EXCEPT ![smp.pos].studio_rotate_z = rot]
           /\ header' = HeaderText(Degrees(rot))
    /\ smp' = [smp EXCEPT !.moves = @ + 1,
                          !.prev = bags.shading.studiolight_rotate_z,
                          !.offset = offset,
                          !.r1 = ModalRotate(bags.shading.studiolight_rotate_z, offset)]
    /\ UNCHANGED <<fs, blend_saved, sett, index, view, obs, colls, op, pc, result, report,
                   pre, mid, renders, history, runs, pv, itemVars, saveVars, encVars>>

\* modal, event LEFTMOUSE: commit
SamplerLeftMouse ==
    /\ pc = "sampler"
    /\ smp.state = "Sampling"
    /\ smp' = [smp EXCEPT !.state = "Committed", !.cursor = "DEFAULT"]
    /\ header' = HeaderNone
    /\ bags' = [bags EXCEPT !.shading = SamplerExecute(bags.shading, smp)]
    /\ report' = [level |-> "INFO", count |-> 0, info |-> "",
                  text |-> "Light Rotation Sampled!"]
    /\ UNCHANGED <<fs, blend_saved, sett, coll, index, view, obs, colls, op, pc, result,
                   pre, mid, renders, history, runs, pv, itemVars, saveVars, encVars>>

\* modal, event RIGHTMOUSE or ESC: cancel
SamplerCancel(event) ==
    /\ pc = "sampler"
    /\ smp.state = "Sampling"
    /\ event \in {"RIGHTMOUSE", "ESC"}
    /\ smp' = [smp EXCEPT !.state = "Cancelled", !.cursor = "DEFAULT"]
    /\ header' = HeaderNone
    /\ coll' = [coll EXCEPT ![smp.pos].studio_rotate_z =
                   CancelRotation(@, smp.saved_item_rotate_z)]
    /\ bags' = [bags EXCEPT !.shading = SamplerExecute(bags.shading, smp)]
    /\ UNCHANGED <<fs, blend_saved, sett, index, view, obs, colls, op, pc, result, report,
                   pre, mid, renders, history, runs, pv, itemVars, saveVars, encVars>>

(***************************************************************************)
(* Record on save: the toggle and the save handler                         *)
(***************************************************************************)
\* the cooldown of screenshot_save_handler, in seconds
Cooldown == 30

\* a callback that warns but leaves the toggle on
BadRecordingSetupKeep(value, c) ==
    [record_on_save |-> value, warned |-> value /\ Len(c) = 0]

\* bad_recording_setup, the update callback of record_on_save, after value
\* was written to the property
BadRecordingSetup(value, c) ==
    IF value /\ Len(c) = 0
    THEN [record_on_save |-> FALSE, warned |-> TRUE]
    ELSE [record_on_save |-> value, warned |-> FALSE]

\* the user switches record_on_save
SetRecordOnSave(value) ==
    /\ pc = "items"
    /\ runs < MaxOps
    /\ value # saver.record_on_save
    /\ LET r == BadRecordingSetup(value, coll)
       IN  /\ saver' = [saver EXCEPT !.record_on_save = r.record_on_save]
           /\ popup' = IF r.warned
                       THEN Append(popup,
                                "Could not render because no screenshot cameras exist.")
                       ELSE popup
    /\ last' = LastOp("toggle", 0, <<>>, value)
    /\ runs' = runs + 1
    /\ UNCHANGED <<fs, blend_saved, sett, coll, index, bags, view, obs, colls, op, pc,
                   result, report, pre, mid, renders, history, pv, bdata,
                   samplerVars, now, autos, encVars>>

\* time.time() - old_time > 30
CooldownOver(t, old_time) == t - old_time > Cooldown

\* screenshot_save_handler; the batch it runs takes d seconds and either
\* returns or raises (outcome), or is refused by the operator's poll, which
\* makes bpy.ops raise before execute is entered
ScreenshotSaveHandler(outcome, d) ==
    /\ pc = "items"
    /\ runs < MaxOps
    /\ outcome \in {"FINISHED", "RAISED"}
    /\ now + d <= MaxClock
    /\ last' = LastOp("save", 0, <<>>, TRUE)
    /\ IF ~saver.record_on_save
       THEN UNCHANGED <<popup, saver, now, autos>>
       ELSE IF Len(coll) = 0
       THEN /\ popup' = Append(popup,
                           "Could not render because no screenshot cameras exist.")
            /\ UNCHANGED <<saver, now, autos>>
       ELSE IF ~CooldownOver(now, saver.old_time)
       THEN UNCHANGED <<popup, saver, now, autos>>
       ELSE IF ~poll(fs, coll, index, sett.export_path)
       THEN UNCHANGED <<popup, saver, now, autos>>
       ELSE /\ autos' = Append(autos, [start |-> now, outcome |-> outcome])
            /\ now' = now + d
            /\ saver' = IF outcome = "FINISHED"
                        THEN [saver EXCEPT !.old_time = now + d]
                        ELSE saver
            /\ UNCHANGED popup
    /\ runs' = runs + 1
    /\ UNCHANGED <<fs, blend_saved, sett, coll, index, bags, view, obs, colls, op, pc,
                   result, report, pre, mid, renders, history, pv, bdata,
                   samplerVars, encVars>>

\* time passes
Tick(dt) ==
    /\ pc = "items"
    /\ now + dt <= MaxClock
    /\ now' = now + dt
    /\ UNCHANGED <<fs, blend_saved, sett, coll, index, bags, view, obs, colls, op, pc,
                   result, report, pre, mid, renders, history, runs, pv, itemVars,
                   samplerVars, saver, autos, encVars>>

(***************************************************************************)
(* The sequence encoder: generate an MP4 or GIF of the active item          *)
(***************************************************************************)
\* the characters of file names in code point order, as sorted() compares
CharOrder ==
    <<" ", ".", "0", "1", "2", "3", "4", "5", "6", "7", "8", "9", "A", "B", "C",
      "_", "a", "b", "c", "d", "e", "f", "g", "h", "i", "j", "k", "l", "m", "n",
      "o", "p", "q", "r", "s", "t", "u", "v", "w", "x", "y", "z">>

Ord(c) == CHOOSE i \in 1..Len(CharOrder) : CharOrder[i] = c

\* a < b for two str values
RECURSIVE StrLess(_, _)
StrLess(a, b) ==
    IF a = <<>> THEN b # <<>>
    ELSE IF b = <<>> THEN FALSE
    ELSE IF a[1] = b[1] THEN StrLess(Tail(a), Tail(b))
    ELSE Ord(a[1]) < Ord(b[1])

\* sorted(names)
RECURSIVE Sorted(_)
Sorted(S) ==
    IF S = {} THEN <<>>
    ELSE LET m == CHOOSE x \in S : \A y \in S \ {x} : StrLess(x, y)
         IN  <<m>> \o Sorted(S \ {m})

\* os.listdir(d)
Listdir(f, d) == {e.name : e \in {x \in f : x.dir = d}}

\* generate_text_file: the frames of the manifest, kept in listing order
RenderFiles(f, input_path, file_format) ==
    LET stem == input_path[Len(input_path)]
        keep == {n \in Listdir(f, Parent(input_path)) :
                    /\ StartsWith(n, stem \o <<"_">>)
                    /\ EndsWith(n, ExtChars(file_format))}
    IN  SelectSeqBy(Sorted(Listdir(f, Parent(input_path))), keep)

\* f"file '{Path(input_path.parent, file_path)}'\nduration 1\n"
ManifestEntry(d, name) == [file |-> d \o <<name>>, duration |-> 1]

Repeat(x, n) == [i \in 1..n |-> x]

GenerateTextFileNoTail(render_files, d, start_repeat, end_repeat) ==
    LET n == Len(render_files)
    IN  IF n = 0 /\ end_repeat > 0
        THEN [raised |-> TRUE, text |-> <<>>]
        ELSE [raised |-> FALSE,
              text |-> (IF n = 0 THEN <<>>
                        ELSE Repeat(ManifestEntry(d, render_files[1]), start_repeat))
                       \o [i \in 1..n |-> ManifestEntry(d, render_files[i])]]

\* generate_text_file: what is written to concat.txt. The tail loop reads the
\* variable of the frame loop, which is unbound when no frame matched: the
\* function raises after open() truncated the file
GenerateTextFile(render_files, d, start_repeat, end_repeat) ==
    LET n == Len(render_files)
    IN  IF n = 0 /\ end_repeat > 0
        THEN [raised |-> TRUE, text |-> <<>>]
        ELSE [raised |-> FALSE,
              text |-> (IF n = 0 THEN <<>>
                        ELSE Repeat(ManifestEntry(d, render_files[1]), start_repeat))
                       \o [i \in 1..n |-> ManifestEntry(d, render_files[i])]
                       \o (IF n = 0 THEN <<>>
                           ELSE Repeat(ManifestEntry(d, render_files[n]), end_repeat))]

\* files_list: the files of the directory whose path ends with the format
FilesList(f, d, file_format) ==
    {n \in Listdir(f, d) : IsFile(f, d, n) /\ EndsWith(n, ExtChars(file_format))}

\* read_exr_header(file)['dataWindow']
ReadExrHeader(imgs, n) == [xMax |-> imgs[n].w - 1, yMax |-> imgs[n].h - 1]

\* Image.open(file).size
ImageSize(imgs, n) == imgs[n]

Odd(x) == x % 2 # 0

BadResCropTargetOnly(s, imgs, files_list) ==
    IF s.mp4_crop_type = "to_resolution"
    THEN Odd(s.mp4_crop_res_x) \/ Odd(s.mp4_crop_res_y)
    ELSE FALSE

\* the resolution check of execute: bad_res
BadRes(s, imgs, files_list) ==
    IF s.mp4_crop_type = "none"
    THEN IF s.format_type = "open_exr"
         THEN \E n \in files_list :
                 \/ Odd(ReadExrHeader(imgs, n).xMax + 1)
                 \/ Odd(ReadExrHeader(imgs, n).yMax + 1)
         ELSE \E n \in files_list :
                 Odd(ImageSize(imgs, n).w) \/ Odd(ImageSize(imgs, n).h)
    ELSE IF s.mp4_crop_type = "to_resolution"
    THEN Odd(s.mp4_crop_res_x) \/ Odd(s.mp4_crop_res_y)
    ELSE \E n \in files_list :
            \/ Odd(ImageSize(imgs, n).w - s.mp4_crop_amt_width)
            \/ Odd(ImageSize(imgs, n).h - s.mp4_crop_amt_height)

\* crop_amt applied to a frame: crop=in_w-W:in_h-H, crop=X:Y or crop=in_w:in_h
CropAmt(s, size) ==
    IF s.mp4_crop_type = "from_border"
    THEN [w |-> size.w - s.mp4_crop_amt_width, h |-> size.h - s.mp4_crop_amt_height]
    ELSE IF s.mp4_crop_type = "to_resolution"
    THEN [w |-> s.mp4_crop_res_x, h |-> s.mp4_crop_res_y]
    ELSE size

\* int(mp4_res_downscale) as the scale expression reads it
DownscaleDivisor(v) ==
    CASE v = "1" -> 1
      [] v = "2" -> 2
      [] v = "4" -> 4

\* scale_amt applied to a frame: scale=-1:ih/N. The height is ih/N cut to an
\* integer, the width follows the aspect ratio
ScaleAmt(v, size) ==
    LET h == size.h \div DownscaleDivisor(v)
    IN  [w |-> RoundDiv(size.w * h, size.h), h |-> h]

\* list.insert(i, x)
Insert(q, i, x) == SubSeq(q, 1, i) \o <<x>> \o SubSeq(q, i + 1, Len(q))

ApplyTrcAppend(format_type, call_args) ==
    IF format_type = "open_exr"
    THEN call_args \o <<"-apply_trc", "iec61966_2_1">>
    ELSE call_args

\* the open_exr branch after a call_args list is built
ApplyTrc(format_type, call_args) ==
    IF format_type = "open_exr"
    THEN Insert(Insert(call_args, 2, "-apply_trc"), 3, "iec61966_2_1")
    ELSE call_args

\* generate_palette: call_args
PaletteArgs(format_type) ==
    ApplyTrc(format_type,
        <<"ffmpeg.exe", "-y", "-f", "concat", "-safe", "0", "-i", "concat.txt",
          "-vf", "palettegen", "palette.png">>)

\* execute: call_args of the encode pass
EncodeArgs(format_type, mp4_format_type) ==
    ApplyTrc(format_type,
        IF mp4_format_type = "mp4"
        THEN <<"ffmpeg.exe", "-y", "-f", "concat", "-safe", "0", "-r", "framerate",
               "-i", "concat.txt", "-filter_complex", "crop;scale",
               "-c:v", "libx264", "-preset", "slow", "-crf", "20",
               "-pix_fmt", "yuv420p", "output_path">>
        ELSE <<"ffmpeg.exe", "-y", "-f", "concat", "-safe", "0", "-r", "framerate",
               "-i", "concat.txt", "-i", "palette.png",
               "-filter_complex", "crop;scale;paletteuse", "output_path">>)

\* mp4_format_type.upper()
FormatUpper(x) ==
    CASE x = "mp4" -> "MP4"
      [] x = "gif" -> "GIF"

\* concat.txt in the add-on's temp directory
ConcatNone == [exists |-> FALSE, text |-> <<>>]

\* no encoder call yet; calls, written, output and entry are history of the
\* last call: the passes it started, whether it wrote concat.txt, the output
\* path it chose and what it started from
EncNone ==
    [concat |-> ConcatNone, calls |-> <<>>, written |-> FALSE, output |-> <<>>,
     entry |-> [called |-> FALSE, fs |-> {}, concat |-> ConcatNone]]

ImagesNone == <<>>

\* a pass handed to subprocess: the frames are the sizes that reach it
Pass(kind, args, text, dims) ==
    [pass |-> kind, args |-> args, concat |-> text, dims |-> dims,
     returned |-> FALSE, exit |-> 0]

\* the sizes of the manifest's frames after crop and then scale
EncodeDims(s, imgs, render_files) ==
    {ScaleAmt(s.mp4_res_downscale, CropAmt(s, ImageSize(imgs, render_files[i]))) :
        i \in 1..Len(render_files)}

\* execute's input_path
InputPath(s, c, i) == AbsPath(s.export_path) \o PathEnd(c[PyIndex(c, i)])

EncReport(level, fmt, text) == [level |-> level, count |-> 0, info |-> fmt, text |-> text]

EncEntry == [called |-> TRUE, fs |-> fs, concat |-> enc.concat]

\* execute up to the return or to the first blocking subprocess call
GenerateMp4 ==
    /\ pc = "encoder"
    /\ runs < MaxRuns
    /\ poll(fs, coll, index, sett.export_path)
    /\ runs' = runs + 1
    /\ LET input_path   == InputPath(sett, coll, index)
           d            == Parent(input_path)
           file_format  == FileFormat(sett.format_type)
           files_list   == FilesList(fs, d, file_format)
           render_files == RenderFiles(fs, input_path, file_format)
           manifest     == GenerateTextFile(render_files, d, sett.mp4_start_repeat_count,
                                            sett.mp4_end_repeat_count)
           output_path  == HandlePathFormattingMp4(fs, input_path, sett.mp4_format_type)
           dims         == EncodeDims(sett, images, render_files)
           idle         == [enc EXCEPT !.calls = <<>>, !.written = FALSE,
                                       !.output = <<>>, !.entry = EncEntry]
       IN  IF ~IsDir(fs, d)
           THEN /\ report' = EncReport("ERROR", "", "The render directory does not exist")
                /\ result' = "CANCELLED"
                /\ enc' = idle
                /\ UNCHANGED pc
           ELSE IF files_list = {}
           THEN /\ report' = EncReport("ERROR", "",
                       "There are no files of the correct type in this directory")
                /\ result' = "CANCELLED"
                /\ enc' = idle
                /\ UNCHANGED pc
           ELSE IF BadRes(sett, images, files_list)
           THEN /\ report' = EncReport("ERROR", "",
                       "An image with a resolution (or crop res) that is not divisible by 2 was found.")
                /\ result' = "CANCELLED"
                /\ enc' = idle
                /\ UNCHANGED pc
           ELSE IF manifest.raised
           THEN /\ result' = "RAISED"
                /\ enc' = [idle EXCEPT !.concat = [exists |-> TRUE, text |-> <<>>],
                                       !.written = TRUE]
                /\ UNCHANGED <<report, pc>>
           ELSE /\ enc' = [idle EXCEPT
                             !.concat = [exists |-> TRUE, text |-> manifest.text],
                             !.written = TRUE,
                             !.output = output_path,
                             !.calls =
                                 IF sett.mp4_format_type = "mp4"
                                 THEN <<Pass("encode",
                                             EncodeArgs(sett.format_type,
                                                        sett.mp4_format_type),
                                             manifest.text, dims)>>
                                 ELSE <<Pass("palette", PaletteArgs(sett.format_type),
                                             manifest.text, dims)>>]
                /\ pc' = IF sett.mp4_format_type = "mp4" THEN "encode" ELSE "palette"
                /\ result' = "RUNNING"
                /\ UNCHANGED report
    /\ UNCHANGED <<fs, blend_saved, sett, coll, index, bags, view, obs, colls, op,
                   pre, mid, renders, history, pv, images,
                   itemVars, samplerVars, saveVars>>

\* subprocess.call of generate_palette returns: its exit code is dropped and
\* execute goes on to the encode pass
PaletteReturn(exit) ==
    /\ pc = "palette"
    /\ LET n == Len(enc.calls)
       IN  enc' = [enc EXCEPT
                     !.calls = Append([enc.calls EXCEPT ![n].returned = TRUE,
                                                        ![n].exit = exit],
                                      Pass("encode",
                                           EncodeArgs(sett.format_type,
                                                      sett.mp4_format_type),
                                           enc.concat.text, enc.calls[n].dims))]
    /\ pc' = "encode"
    /\ UNCHANGED <<fs, blend_saved, sett, coll, index, bags, view, obs, colls, op,
                   result, report, pre, mid, renders, history, runs, pv, images,
                   itemVars, samplerVars, saveVars>>

\* subprocess.check_output of the encode pass returns or raises
\* CalledProcessError, then the rest of execute; present says whether the
\* process left the output file
EncodeReturn(exit, present) ==
    /\ pc = "encode"
    /\ LET n == Len(enc.calls)
       IN  enc' = [enc EXCEPT !.calls[n].returned = TRUE, !.calls[n].exit = exit]
    /\ fs' = IF present
             THEN fs \cup {[dir |-> enc.output.dir, name |-> enc.output.name,
                            isfile |-> TRUE]}
             ELSE fs
    /\ IF exit # 0
       THEN /\ report' = EncReport("ERROR", FormatUpper(sett.mp4_format_type),
                                   "was not encoded properly")
            /\ result' = "CANCELLED"
       ELSE IF IsFile(fs', enc.output.dir, enc.output.name)
       THEN /\ report' = EncReport("INFO", FormatUpper(sett.mp4_format_type),
                                   "Generated!")
            /\ result' = "FINISHED"
       ELSE /\ report' = EncReport("ERROR", FormatUpper(sett.mp4_format_type),
                                   "was not encoded properly")
            /\ result' = "FINISHED"
    /\ pc' = "encoder"
    /\ UNCHANGED <<blend_saved, sett, coll, index, bags, view, obs, colls, op,
                   pre, mid, renders, history, runs, pv, images,
                   itemVars, samplerVars, saveVars>>

(***************************************************************************)
(* Initial states                                                          *)
(***************************************************************************)
FsBase == {DirEntry(TmpDir), DirEntry(BlendDir), DirEntry(ShotsDir)}

File(d, n) == [dir |-> d, name |-> n, isfile |-> TRUE]

\* entries that may already be in the export directory
ShotsCandidates ==
    {File(ShotsDir, <<"A", "_", "0", "0", "0", "1", ".", "p", "n", "g">>),
     File(ShotsDir, <<"A", "_", "0", "0", "0", "3", ".", "p", "n", "g">>),
     File(ShotsDir, <<"B", "_", "0", "0", "0", "7", ".", "p", "n", "g">>),
     File(ShotsDir, <<"A", "_", "v", "2", ".", "p", "n", "g">>),
     [dir |-> ShotsDir, name |-> <<"A", "_", "0", "0", "0", "9", ".", "p", "n", "g">>,
      isfile |-> FALSE]}

\* entries of the directory the versioner is tried on
PathCandidates ==
    ShotsCandidates \cup
    {File(ShotsDir, <<"A", "_", "0", "0", "0", "2", ".", "j", "p", "e", "g">>),
     File(ShotsDir, <<"A", "_", "0", "0", "0", "4", ".", "m", "p", "4">>),
     File(ShotsDir, <<"B", "_", "0", "0", "0", "2", ".", "g", "i", "f">>),
     File(ShotsDir, <<"5", ".", "p", "n", "g">>)}

SettDefault ==
    [export_path |-> "/tmp/shots", format_type |-> "png", mp4_format_type |-> "mp4"]

ViewDefault ==
    [area_type |-> "VIEW_3D", view_perspective |-> "PERSP", lpersp |-> "PERSP",
     local_view |-> FALSE]

Vis(r, v, h) == [hide_render |-> r, hide_viewport |-> v, hide |-> h]

CVis(r, v, l, in) == [hide_render |-> r, hide_viewport |-> v, layer_hide |-> l,
                      in_layer |-> in]

ObsDefault == [Cube |-> Vis(FALSE, FALSE, FALSE), Lamp |-> Vis(TRUE, FALSE, FALSE)]

ObsHidden == [Cube |-> Vis(FALSE, TRUE, TRUE), Lamp |-> Vis(TRUE, TRUE, TRUE)]

ObsMixed == [Cube |-> Vis(TRUE, FALSE, TRUE), Lamp |-> Vis(FALSE, FALSE, TRUE)]

CollsDefault ==
    [Collection |-> CVis(FALSE, FALSE, FALSE, TRUE), Refs |-> CVis(TRUE, FALSE, FALSE, TRUE)]

CollsHidden ==
    [Collection |-> CVis(FALSE, TRUE, TRUE, TRUE), Refs |-> CVis(TRUE, TRUE, TRUE, TRUE)]

\* a collection that is not linked into the view layer
CollsUnlinked ==
    [Collection |-> CVis(FALSE, TRUE, TRUE, TRUE), Refs |-> CVis(FALSE, FALSE, FALSE, FALSE)]

\* visibility of the objects and collections of a document
VisibilityChoices ==
    {<<ObsDefault, CollsDefault>>, <<ObsHidden, CollsHidden>>, <<ObsMixed, CollsDefault>>,
     <<ObsDefault, CollsUnlinked>>}

\* items with their own shading
ItemWorkbench(id, name, lighting) ==
    [ItemDefault(id, name) EXCEPT
        !.use_defaults = FALSE, !.render_type = "workbench", !.lighting_type = lighting,
        !.use_wsl = TRUE, !.studio_rotate_z = 157, !.use_cavity = TRUE,
        !.cavity_ridge = 250, !.outliner_color_value = 33, !.color_type = "random",
        !.render_frame = 12, !.cam_res_x = 512, !.cam_res_y = 512]

ItemEevee(id, name, defaults) ==
    [ItemDefault(id, name) EXCEPT
        !.use_defaults = defaults, !.render_type = "eevee", !.eevee_use_rotate = TRUE,
        !.studio_rotate_z = -90, !.eevee_intensity = 150, !.eevee_alpha = 100,
        !.render_frame = 3]

Disabled(it) == [it EXCEPT !.enabled = FALSE]
NoSubfolder(it) == [it EXCEPT !.use_subfolder = FALSE]
InSubfolder(it, sub) == [it EXCEPT !.use_subfolder = TRUE, !.subfolder_name = sub]

\* item lists of the sessions that differ in their shading setup
CollsShading ==
    {<<ItemWorkbench(0, NameA, "studio"), ItemEevee(1, NameB, FALSE)>>,
     <<ItemEevee(0, NameA, TRUE), ItemWorkbench(1, NameB, "matcap")>>,
     <<ItemDefault(0, NameA), Disabled(ItemWorkbench(1, NameB, "flat"))>>,
     <<Disabled(ItemEevee(0, NameA, FALSE)), ItemDefault(1, NameB)>>,
     <<ItemWorkbench(0, NameA, "matcap"), ItemDefault(1, NameB)>>}

\* item lists of the sessions that differ in their output folders
CollsPaths ==
    {<<NoSubfolder(ItemDefault(0, NameA)), NoSubfolder(ItemDefault(1, NameB))>>,
     <<ItemDefault(0, NameA), ItemDefault(1, NameB)>>,
     <<InSubfolder(ItemDefault(0, NameA), SubX), InSubfolder(ItemDefault(1, NameB), SubX)>>,
     <<NoSubfolder(ItemDefault(0, NameA)), Disabled(ItemDefault(1, NameB))>>,
     <<InSubfolder(ItemDefault(0, NameA), SubX), Disabled(ItemDefault(1, NameB))>>}

\* item lists of the sessions that differ in what the poll sees
CollsPoll ==
    {<<>>,
     <<ItemDefault(0, NameA)>>,
     <<Disabled(ItemDefault(0, NameA))>>,
     <<Disabled(ItemDefault(0, NameA)), Disabled(ItemDefault(1, NameB))>>}

\* the active index: a position of the list, or -1 after a stale index or
\* after the list was emptied
IndexChoices(c) == IF Len(c) = 0 THEN {-1, 0} ELSE {-1} \cup (0..(Len(c) - 1))

InitCommon ==
    /\ op = OpIdle
    /\ pc = "idle"
    /\ result = "NONE"
    /\ report = [level |-> "NONE", count |-> 0, info |-> "", text |-> ""]
    /\ pre = PreState("enabled")
    /\ mid = MidNone
    /\ renders = <<>>
    /\ history = <<>>
    /\ runs = 0
    /\ pv = PvNone
    /\ bdata = DataNone
    /\ popup = <<>>
    /\ last = LastNone
    /\ smp = SamplerNone
    /\ header = HeaderNone
    /\ saver = SaverNone
    /\ now = 0
    /\ autos = <<>>
    /\ images = ImagesNone
    /\ enc = EncNone

\* sessions that differ in ambient settings, view and visibility
InitSettings ==
    /\ fs = FsBase
    /\ blend_saved = TRUE
    /\ sett \in {[SettDefault EXCEPT !.format_type = f] : f \in {"png", "jpeg", "open_exr"}}
    /\ coll \in CollsShading
    /\ index = 0
    /\ bags \in {AmbientUser, AmbientFresh, AmbientExr}
    /\ view \in {[area_type |-> a, view_perspective |-> p, lpersp |-> "PERSP",
                  local_view |-> l] :
                    a \in {"VIEW_3D", "PROPERTIES"}, p \in {"CAMERA", "PERSP"},
                    l \in BOOLEAN}
    /\ \E vc \in VisibilityChoices :
          /\ obs = vc[1]
          /\ colls = vc[2]

\* sessions that differ in the files on disk and the output folders
InitPaths ==
    /\ fs \in {FsBase \cup extra : extra \in SUBSET ShotsCandidates}
    /\ blend_saved = TRUE
    /\ sett \in {[SettDefault EXCEPT !.format_type = f] : f \in {"png", "jpeg"}}
    /\ coll \in CollsPaths
    /\ index \in {0, 1}
    /\ bags = AmbientFresh
    /\ view = ViewDefault
    /\ obs = ObsDefault
    /\ colls = CollsDefault

\* sessions that differ in what the poll and the first check of execute see
InitPoll ==
    /\ fs \in {FsBase, FsBase \cup {File(ShotsDir, SubX)}}
    /\ blend_saved \in BOOLEAN
    /\ sett \in {[SettDefault EXCEPT !.export_path = e] :
                    e \in {" ", "/tmp/shots", "/tmp/gone", "//screenshots"}}
    /\ coll \in CollsPoll \cup {<<InSubfolder(ItemDefault(0, NameA), SubX)>>}
    /\ index \in IndexChoices(coll)
    /\ bags = AmbientUser
    /\ view = [ViewDefault EXCEPT !.local_view = TRUE]
    /\ obs = ObsDefault
    /\ colls = CollsDefault

Init ==
    /\ \/ InitSettings
       \/ InitPaths
       \/ InitPoll
    /\ InitCommon

Next ==
    \/ \E rt \in {"single", "enabled"} : PollFail(rt)
    \/ \E rt \in {"single", "enabled"} : ExecuteUnsaved(rt)
    \/ \E rt \in {"single", "enabled"} : Execute(rt)
    \/ GetSetHiddenObjects
    \/ GetSetHiddenObjectsRaise
    \/ SaveSettings
    \/ HandleMiscSett
    \/ RenderScreenshot
    \/ RenderItem
    \/ RenderRaise
    \/ RenderReturn
    \/ LoadSavedSettings
    \/ Report

Spec == Init /\ [][Next]_vars

InitPath ==
    /\ fs \in {FsBase \cup extra : extra \in SUBSET PathCandidates}
    /\ blend_saved = TRUE
    /\ sett = SettDefault
    /\ coll = <<>>
    /\ index = 0
    /\ bags = AmbientFresh
    /\ view = ViewDefault
    /\ obs = ObsDefault
    /\ colls = CollsDefault
    /\ op = OpIdle
    /\ pc = "path"
    /\ result = "NONE"
    /\ report = [level |-> "NONE", count |-> 0, info |-> "", text |-> ""]
    /\ pre = PreState("enabled")
    /\ mid = MidNone
    /\ renders = <<>>
    /\ history = <<>>
    /\ runs = 0
    /\ pv = PvNone
    /\ bdata = DataNone
    /\ popup = <<>>
    /\ last = LastNone
    /\ smp = SamplerNone
    /\ header = HeaderNone
    /\ saver = SaverNone
    /\ now = 0
    /\ autos = <<>>
    /\ images = ImagesNone
    /\ enc = EncNone

NextPath ==
    \/ \E stem \in {NameA, NameB}, f \in {"png", "jpeg", "open_exr"} : PathStill(stem, f)
    \/ \E stem \in {NameA, NameB}, f \in {"mp4", "gif"} : PathMp4(stem, f)

SpecPath == InitPath /\ [][NextPath]_vars


(***************************************************************************)
(* Item management on its own                                              *)
(***************************************************************************)
\* the names a user types: two plain names, the empty name, and the name
\* the add operator gives to the first item
RenameChoices == {NameA, NameB, <<>>, ScreenshotName(1)}

InitItems ==
    /\ fs = FsBase
    /\ blend_saved = TRUE
    /\ sett = SettDefault
    /\ coll = <<>>
    /\ index = 0
    /\ bags = AmbientFresh
    /\ view = ViewDefault
    /\ obs = ObsDefault
    /\ colls = CollsDefault
    /\ op = OpIdle
    /\ pc = "items"
    /\ result = "NONE"
    /\ report = [level |-> "NONE", count |-> 0, info |-> "", text |-> ""]
    /\ mid = MidNone
    /\ renders = <<>>
    /\ history = <<>>
    /\ runs = 0
    /\ pv = PvNone
    /\ bdata = DataNone
    /\ popup = <<>>
    /\ last = LastNone
    /\ smp = SamplerNone
    /\ header = HeaderNone
    /\ saver = SaverNone
    /\ now = 0
    /\ autos = <<>>
    /\ images = ImagesNone
    /\ enc = EncNone
    /\ pre = PreState("enabled")

NextItems ==
    \/ AddScreenshotItem
    \/ \E pos \in 1..MaxItems, new \in RenameChoices : RenameItem(pos, new)
    \/ DeleteScreenshotItem
    \/ \E i \in 0..(MaxItems - 1) : SelectRow(i)
    \/ \E i \in 1..MaxItems : LoadStaleIndex(i)
    \/ GetActiveScrshot
    \/ \E pos \in 1..MaxItems, p \in BOOLEAN : SelectAndPreview(pos, p)

SpecItems == InitItems /\ [][NextItems]_vars

(***************************************************************************)
(* The sampler on its own                                                  *)
(***************************************************************************)
\* a fresh session, and one whose viewport is in wireframe with the scene
\* world shown
SamplerAmbients ==
    {AmbientFresh,
     [AmbientUser EXCEPT !.shading.use_scene_world = TRUE,
                         !.shading.use_studiolight_view_rotation = FALSE]}

\* pointer travel in pixels between two MOUSEMOVE events
Offsets == {-420, -1, 0, 420}

InitSampler ==
    /\ fs = FsBase
    /\ blend_saved = TRUE
    /\ sett = SettDefault
    /\ \E r0 \in {0, 1570000, -3141000} :
          coll = <<[ItemDefault(0, NameA) EXCEPT !.studio_rotate_z = r0]>>
    /\ index = 0
    /\ \E b \in SamplerAmbients, v \in {0, 500000} :
          bags = [b EXCEPT !.shading.studiolight_rotate_z = v]
    /\ view = ViewDefault
    /\ obs = ObsDefault
    /\ colls = CollsDefault
    /\ op = OpIdle
    /\ pc = "sampler"
    /\ result = "NONE"
    /\ report = [level |-> "NONE", count |-> 0, info |-> "", text |-> ""]
    /\ mid = MidNone
    /\ renders = <<>>
    /\ history = <<>>
    /\ runs = 0
    /\ pv = PvNone
    /\ bdata = DataNone
    /\ popup = <<>>
    /\ last = LastNone
    /\ smp = SamplerNone
    /\ header = HeaderNone
    /\ saver = SaverNone
    /\ now = 0
    /\ autos = <<>>
    /\ images = ImagesNone
    /\ enc = EncNone
    /\ pre = PreState("enabled")

NextSampler ==
    \/ \E t \in {"workbench", "eevee"} : SamplerInvoke(t)
    \/ \E o \in Offsets : SamplerMouseMove(o)
    \/ SamplerLeftMouse
    \/ \E e \in {"RIGHTMOUSE", "ESC"} : SamplerCancel(e)

SpecSampler == InitSampler /\ [][NextSampler]_vars

(***************************************************************************)
(* Record on save on its own                                               *)
(***************************************************************************)
\* a session some time after the interpreter set old_time to 0
InitSave ==
    /\ fs = FsBase
    /\ blend_saved = TRUE
    /\ sett = SettDefault
    /\ coll = <<>>
    /\ index = 0
    /\ bags = AmbientFresh
    /\ view = ViewDefault
    /\ obs = ObsDefault
    /\ colls = CollsDefault
    /\ op = OpIdle
    /\ pc = "items"
    /\ result = "NONE"
    /\ report = [level |-> "NONE", count |-> 0, info |-> "", text |-> ""]
    /\ mid = MidNone
    /\ renders = <<>>
    /\ history = <<>>
    /\ runs = 0
    /\ pv = PvNone
    /\ bdata = DataNone
    /\ popup = <<>>
    /\ last = LastNone
    /\ smp = SamplerNone
    /\ header = HeaderNone
    /\ saver = SaverNone
    /\ now = 100
    /\ autos = <<>>
    /\ images = ImagesNone
    /\ enc = EncNone
    /\ pre = PreState("enabled")

NextSave ==
    \/ AddScreenshotItem
    \/ DeleteScreenshotItem
    \/ \E v \in BOOLEAN : SetRecordOnSave(v)
    \/ \E o \in {"FINISHED", "RAISED"}, d \in {0, 1} : ScreenshotSaveHandler(o, d)
    \/ \E dt \in {30, 31} : Tick(dt)

SpecSave == InitSave /\ [][NextSave]_vars

(***************************************************************************)
(* The encoder on its own                                                   *)
(***************************************************************************)
\* item A renders into the export directory, item B into a subfolder that
\* was never made
CollEncoder ==
    <<[ItemDefault(0, NameA) EXCEPT !.use_subfolder = FALSE], ItemDefault(1, NameB)>>

\* what the export directory may hold: frames of A, a frame of item B that
\* was rendered there before B used a subfolder
EncoderListings ==
    {{}, {<<NameB, 1>>}, {<<NameA, 1>>},
     {<<NameA, 1>>, <<NameA, 2>>, <<NameA, 3>>},
     {<<NameA, 1>>, <<NameA, 2>>, <<NameA, 3>>, <<NameB, 1>>}}

FrameSizes == {[w |-> 8, h |-> 8], [w |-> 6, h |-> 6], [w |-> 5, h |-> 6]}

OtherSizes == {[w |-> 8, h |-> 8], [w |-> 5, h |-> 6]}

CropChoices ==
    {[type |-> "none", res |-> <<1920, 1080>>, amt |-> <<0, 0>>],
     [type |-> "from_border", res |-> <<1920, 1080>>, amt |-> <<1, 0>>],
     [type |-> "from_border", res |-> <<1920, 1080>>, amt |-> <<2, 2>>],
     [type |-> "to_resolution", res |-> <<4, 4>>, amt |-> <<0, 0>>],
     [type |-> "to_resolution", res |-> <<3, 4>>, amt |-> <<0, 0>>]}

EncoderSett(format_type, mp4_format_type, downscale, s, e, crop) ==
    [export_path |-> "/tmp/shots", format_type |-> format_type,
     mp4_format_type |-> mp4_format_type, mp4_framerate |-> 2,
     mp4_res_downscale |-> downscale,
     mp4_start_repeat_count |-> s, mp4_end_repeat_count |-> e,
     mp4_crop_type |-> crop.type,
     mp4_crop_res_x |-> crop.res[1], mp4_crop_res_y |-> crop.res[2],
     mp4_crop_amt_width |-> crop.amt[1], mp4_crop_amt_height |-> crop.amt[2]]

InitEncoder ==
    /\ \E format_type \in {"png", "open_exr"}, mp4_format_type \in {"mp4", "gif"},
          downscale \in {"1", "2", "4"}, s \in 0..MaxStartRepeat,
          e \in 0..MaxEndRepeat, crop \in CropChoices :
          sett = EncoderSett(format_type, mp4_format_type, downscale, s, e, crop)
    /\ \E listing \in EncoderListings, sa \in FrameSizes, sb \in OtherSizes :
          LET names == {[stem |-> x[1],
                         name |-> NumberedName(x[1], x[2], FileFormat(sett.format_type))] :
                            x \in listing}
          IN  /\ fs = FsBase \cup {File(ShotsDir, n.name) : n \in names}
              /\ images = [n \in {x.name : x \in names} |->
                              IF (CHOOSE x \in names : x.name = n).stem = NameA
                              THEN sa ELSE sb]
    /\ blend_saved = TRUE
    /\ coll = CollEncoder
    /\ index \in {0, 1}
    /\ bags = AmbientFresh
    /\ view = ViewDefault
    /\ obs = ObsDefault
    /\ colls = CollsDefault
    /\ op = OpIdle
    /\ pc = "encoder"
    /\ result = "NONE"
    /\ report = [level |-> "NONE", count |-> 0, info |-> "", text |-> ""]
    /\ mid = MidNone
    /\ renders = <<>>
    /\ history = <<>>
    /\ runs = 0
    /\ pv = PvNone
    /\ bdata = DataNone
    /\ popup = <<>>
    /\ last = LastNone
    /\ smp = SamplerNone
    /\ header = HeaderNone
    /\ saver = SaverNone
    /\ now = 0
    /\ autos = <<>>
    /\ enc = EncNone
    /\ pre = PreState("enabled")

NextEncoder ==
    \/ GenerateMp4
    \/ \E exit \in {0, 1} : PaletteReturn(exit)
    \/ \E exit \in {0, 1}, present \in BOOLEAN : EncodeReturn(exit, present)

SpecEncoder == InitEncoder /\ [][NextEncoder]_vars

(***************************************************************************)
(* Properties                                                              *)
(***************************************************************************)
Finished(h) == h.result = "FINISHED"

EnabledSet(c) == {i \in 1..Len(c) : c[i].enabled}

\* the numeric suffix of a rendered file name
SuffixOf(name, ext) == PyInt(SplitFirst(SplitLast(name, <<"_">>), <<".">> \o ExtChars(ext))).val

\* the attributes the snapshot holds for a settings object
SnapshotAttrs(b) ==
    CASE b = "overlay" -> {"show_overlays"}
      [] b = "scene"   -> {"frame_current"}
      [] OTHER         -> Range(DirAttrs(b))

SnapshotBags == {"shading", "render", "image_settings", "display", "eevee", "overlay", "scene"}

\* C1: a batch whose render primitive raised has still put back the shading
\* and overlay settings, the camera and frame, the visibility of every object
\* and collection, the view perspective and the area type.
C1_RestoredAfterRenderRaise ==
    \A k \in 1..Len(history) :
        history[k].result = "RAISED_RENDER" =>
            /\ history[k].after.bags.shading = history[k].pre.bags.shading
            /\ history[k].after.bags.overlay = history[k].pre.bags.overlay
            /\ history[k].after.bags.scene = history[k].pre.bags.scene
            /\ history[k].after.obs = history[k].pre.obs
            /\ history[k].after.colls = history[k].pre.colls
            /\ history[k].after.view.view_perspective = history[k].pre.view.view_perspective
            /\ history[k].after.view.area_type = history[k].pre.view.area_type

\* C2: a batch requested while the export directory is missing or no item is
\* enabled is rejected and at no point changes a setting, a visibility flag,
\* the view, or the disk, and renders nothing.
C2_RejectedBeforeMutation ==
    (runs > 0 /\ (\/ ~IsDir(pre.fs, AbsPath(pre.sett.export_path))
                  \/ EnabledSet(pre.coll) = {})) =>
        /\ pc = "idle"
        /\ result \in {"POLL_FAILED", "CANCELLED"}
        /\ bags = pre.bags
        /\ view = pre.view
        /\ obs = pre.obs
        /\ colls = pre.colls
        /\ fs = pre.fs
        /\ renders = <<>>

\* C3: after a batch that completed, every settings object the batch wrote
\* to, the view perspective and the area type equal their values from before
\* the batch.
C3_WrittenStateRestored ==
    \A k \in 1..Len(history) :
        Finished(history[k]) =>
            /\ history[k].after.bags = history[k].pre.bags
            /\ history[k].after.view.view_perspective = history[k].pre.view.view_perspective
            /\ history[k].after.view.area_type = history[k].pre.view.area_type

C5_VisibilityRestored ==
    mid.restored => (obs = pre.obs /\ colls = pre.colls)

\* a restore after the force step changed flags of objects and collections
C5_Witness ==
    /\ mid.restored
    /\ mid.forced
    /\ \E x \in DOMAIN pre.obs : mid.obs[x].hide # pre.obs[x].hide
    /\ \E x \in DOMAIN pre.obs : mid.obs[x].hide_viewport # pre.obs[x].hide_viewport
    /\ \E x \in DOMAIN pre.colls : mid.colls[x].layer_hide # pre.colls[x].layer_hide
    /\ \E x \in DOMAIN pre.colls : mid.colls[x].hide_viewport # pre.colls[x].hide_viewport

\* C6: a completed all-mode batch rendered the enabled items, each once, in
\* collection order, and reports their number; a completed single-mode batch
\* rendered the active item once and reports 1.
C6_RendersEnabledInOrder ==
    \A k \in 1..Len(history) :
        Finished(history[k]) =>
            LET h == history[k]
                c == h.pre.coll
                n == Len(h.renders)
            IN  IF h.pre.render_type = "enabled"
                THEN /\ {h.renders[i].pos : i \in 1..n} = EnabledSet(c)
                     /\ \A i, j \in 1..n : i < j => h.renders[i].pos < h.renders[j].pos
                     /\ h.count = Cardinality(EnabledSet(c))
                ELSE /\ n = 1
                     /\ h.renders[1].pos =
                           (IF h.pre.index < 0 THEN Len(c) + h.pre.index + 1
                            ELSE h.pre.index + 1)
                     /\ h.count = 1

\* an all-mode batch that passed over a disabled item, then a single-mode batch
C6_Witness ==
    /\ Len(history) = 2
    /\ Finished(history[1])
    /\ Finished(history[2])
    /\ history[1].pre.render_type = "enabled"
    /\ history[1].count = 1
    /\ Len(history[1].pre.coll) = 2
    /\ history[2].pre.render_type = "single"
    /\ Len(history[2].renders) = 1

\* two all-mode batches over the same two enabled items, with nothing
\* changed in between
TwoRuns(k) ==
    /\ k + 1 <= Len(history)
    /\ Finished(history[k])
    /\ Finished(history[k + 1])
    /\ history[k].pre.render_type = "enabled"
    /\ history[k + 1].pre.render_type = "enabled"
    /\ history[k + 1].pre.coll = history[k].pre.coll
    /\ history[k + 1].pre.sett = history[k].pre.sett
    /\ history[k + 1].pre.fs = history[k].fs
    /\ Len(history[k].pre.coll) = 2
    /\ EnabledSet(history[k].pre.coll) = {1, 2}

\* C7: the second of two such batches writes two files that are new and
\* differ from the two of the first, with a larger suffix per item, and
\* leaves the shared state as the first one left it.
C7_TwoRunsIdempotent ==
    \A k \in 1..Len(history) :
        TwoRuns(k) =>
            LET h1  == history[k]
                h2  == history[k + 1]
                ext == FileFormat(h1.pre.sett.format_type)
            IN  /\ Len(h1.renders) = 2
                /\ Len(h2.renders) = 2
                /\ Cardinality({h1.renders[i].path : i \in 1..2}
                               \cup {h2.renders[i].path : i \in 1..2}) = 4
                /\ \A i \in 1..2 : ~h1.renders[i].existed /\ ~h2.renders[i].existed
                /\ \A i \in 1..2 :
                      SuffixOf(h2.renders[i].path.name, ext)
                         > SuffixOf(h1.renders[i].path.name, ext)
                /\ h2.after = h1.after

\* two such batches whose items share one directory, in a session whose
\* settings differ from what a batch writes
C7_Witness ==
    /\ TwoRuns(1)
    /\ history[1].renders[1].path.dir = history[1].renders[2].path.dir
    /\ history[2].fs # history[1].fs

\* the end-to-end scenario: export root /tmp/shots without files, png, item A
\* enabled and item B disabled, one all-mode batch
Scenario(h) ==
    /\ Finished(h)
    /\ h.pre.render_type = "enabled"
    /\ h.pre.sett.export_path = "/tmp/shots"
    /\ h.pre.sett.format_type = "png"
    /\ h.pre.fs = FsBase
    /\ Len(h.pre.coll) = 2
    /\ h.pre.coll[1].name = NameA
    /\ h.pre.coll[1].enabled
    /\ h.pre.coll[2].name = NameB
    /\ ~h.pre.coll[2].enabled

A0001png == <<"A", "_", "0", "0", "0", "1", ".", "p", "n", "g">>

NewFiles(h) == {e \in h.fs : e.isfile} \ h.pre.fs

\* C8 as stated: the scenario renders exactly the file /tmp/shots/A_0001.png
\* and reports 1.
C8_ScenarioAsStated ==
    (Len(history) >= 1 /\ Scenario(history[1])) =>
        /\ NewFiles(history[1]) = {File(ShotsDir, A0001png)}
        /\ history[1].count = 1

\* C8 amended: the scenario renders exactly one file and reports 1; the file
\* is /tmp/shots/A_0001.png when A does not use a subfolder and
\* /tmp/shots/<subfolder_name>/A_0001.png when it does.
C8_ScenarioAmended ==
    (Len(history) >= 1 /\ Scenario(history[1])) =>
        /\ history[1].count = 1
        /\ NewFiles(history[1]) =
              {File(IF history[1].pre.coll[1].use_subfolder
                    THEN ShotsDir \o <<history[1].pre.coll[1].subfolder_name>>
                    ELSE ShotsDir,
                    A0001png)}

\* the scenario with an item A that does not use a subfolder
C8_Witness ==
    /\ Len(history) >= 1
    /\ Scenario(history[1])
    /\ ~history[1].pre.coll[1].use_subfolder
    /\ IsFile(fs, ShotsDir, A0001png)

\* the files of a listing named stem_NNNN.ext, NNNN being digits
StemFiles(f, d, stem, ext) ==
    {e \in f : /\ e.dir = d
               /\ e.isfile
               /\ StartsWith(e.name, stem \o <<"_">>)
               /\ EndsWith(e.name, <<".">> \o ExtChars(ext))
               /\ LET num == Slice(e.name, Len(stem) + 2, Len(e.name) - Len(ExtChars(ext)) - 1)
                  IN  num # <<>> /\ \A i \in 1..Len(num) : IsDigit(num[i])}

\* C9: the versioner returns stem_(m+1).ext, m being the largest counter
\* among the existing stem_NNNN.ext files, or stem_0001.ext without any; the
\* returned path is not an existing plain file.
C9_NextAfterLargestOfStem ==
    pv.called =>
        LET mine == {SuffixOf(e.name, pv.ext) : e \in StemFiles(pv.before, pv.dir, pv.stem, pv.ext)}
        IN  /\ pv.out = NumberedName(pv.stem,
                                     IF mine = {} THEN 1 ELSE SetMax(mine) + 1, pv.ext)
            /\ ~IsFile(pv.before, pv.dir, pv.out)

\* C10: the versioner returns for stem S what it returns when the directory
\* holds only the files named S_NNNN.ext.
C10_OtherStemsIgnored ==
    pv.called =>
        LET only == StemFiles(pv.before, pv.dir, pv.stem, pv.ext)
        IN  pv.out = NumberedName(pv.stem, Counter(FileNumbers(only, pv.dir, pv.ext)), pv.ext)

\* a step of the batch that resolved and rendered an item whose use_defaults
\* flag is set
ResolvedDefaults ==
    /\ pc = "loop"
    /\ Len(renders') = Len(renders) + 1
    /\ coll[renders'[Len(renders')].pos].use_defaults

\* C11: resolving an item whose use_defaults flag is set changes the active
\* camera, the output resolution, the current frame and the output path and
\* nothing else: every ambient shading setting, the render engine included,
\* keeps the value it had before the item was resolved
C11_DefaultsLeaveShading ==
    [][ResolvedDefaults =>
         LET it == coll[renders'[Len(renders')].pos]
         IN  bags' = [bags EXCEPT !.scene.camera = it.camera_ob,
                                  !.scene.frame_current = it.render_frame,
                                  !.render.resolution_x = it.cam_res_x,
                                  !.render.resolution_y = it.cam_res_y,
                                  !.render.filepath = renders'[Len(renders')].path]]_vars

\* the rotation stored in the item the sampler was invoked for
SampledItemRotation == coll[smp.pos].studio_rotate_z

\* C12: after a cancel the item's rotation is the rotation r0 it had when the
\* sampler was invoked; after a commit that followed at least one
\* pointer-move it is the rotation r1 the last move dragged to
C12_CancelRestoresCommitKeeps ==
    /\ smp.state = "Cancelled" => SampledItemRotation = smp.r0
    /\ smp.state = "Committed" /\ smp.moves > 0 => SampledItemRotation = smp.r1

C12_Witness ==
    /\ smp.state = "Cancelled"
    /\ smp.moves >= 2
    /\ smp.r1 # smp.r0
    /\ smp.r0 # 0

\* C13: after every pointer-move the rotation written to the preview and to
\* the item lies within [-pi, pi]; a move that crosses a bound leaves the
\* rotation at the opposite bound; a move of zero travel leaves the
\* rotation as it was
C13_WrapAndZeroDelta ==
    smp.state = "Sampling" /\ smp.moves > 0 =>
        LET rot == bags.shading.studiolight_rotate_z
            raw == smp.prev + smp.offset * RotateStep
        IN  /\ SampledItemRotation = rot
            /\ rot >= 0 - RotateMax /\ rot <= RotateMax
            /\ raw > RotateMax => rot = 0 - WrapBound
            /\ raw < 0 - RotateMax => rot = WrapBound
            /\ smp.offset = 0 => rot = smp.prev

\* C14: when the sampler has ended, by commit or by cancel, the shading
\* mode, the light kind, the world space lighting toggle, the scene world
\* toggle and the view rotation toggle of the viewport have the values they
\* had before invoke, and the header text is cleared
C14_AmbientRestoredOnExit ==
    smp.state \in {"Committed", "Cancelled"} =>
        /\ bags.shading.type = smp.entry.type
        /\ bags.shading.light = smp.entry.light
        /\ bags.shading.use_world_space_lighting = smp.entry.use_world_space_lighting
        /\ bags.shading.use_scene_world = smp.entry.use_scene_world
        /\ bags.shading.use_studiolight_view_rotation =
               smp.entry.use_studiolight_view_rotation
        /\ header = HeaderNone

C14_Witness ==
    /\ smp.state = "Committed"
    /\ smp.light_type = "eevee"
    /\ smp.moves > 0
    /\ smp.entry.type = "WIREFRAME"
    /\ smp.entry.use_scene_world
    /\ ~smp.entry.use_studiolight_view_rotation

\* the last operation was a rename to a name another item was using
RenameToUsedName ==
    /\ last.op = "rename"
    /\ \E j \in 1..Len(last.coll) : j # last.pos /\ last.coll[j].name = last.arg

\* C15: the names of the items are pairwise distinct; a rename to a name
\* another item uses leaves the item with the name it had and shows the
\* warning
C15_NamesDistinct ==
    /\ \A i, j \in 1..Len(coll) : i # j => coll[i].name # coll[j].name
    /\ RenameToUsedName =>
          /\ coll[last.pos].name = last.coll[last.pos].name
          /\ coll = last.coll
          /\ Len(popup) = last.popups + 1
          /\ popup[Len(popup)] = "You cannot use repeating screenshot names."

C15_Witness ==
    /\ RenameToUsedName
    /\ Len(coll) >= 2
    /\ last.arg # last.coll[last.pos].name

\* the camera object and the camera data item i points to
OwnedObjects(i) == {o \in Range(bdata.objects) : o.uid = coll[i].camera_ob}
OwnedCameras(i) == {c \in Range(bdata.cameras) : c.uid = coll[i].camera_ob}

\* C16: every item owns a camera object and camera data whose identifier is
\* the item's name; every camera carries the name of an existing item; a
\* rejected rename changes no identifier; a delete removes the object and
\* the data of the deleted item and nothing else, and the camera collection
\* exists exactly while items exist
C16_CameraIdentifiersFollowItems ==
    /\ \A i \in 1..Len(coll) :
          /\ \E o \in OwnedObjects(i) : o.screenshot_id = coll[i].name
          /\ \E c \in OwnedCameras(i) : c.screenshot_id = coll[i].name
    /\ \A o \in Range(bdata.objects) :
          o.type = "CAMERA" => o.screenshot_id \in ItemNames(coll)
    /\ \A c \in Range(bdata.cameras) : c.screenshot_id \in ItemNames(coll)
    /\ RenameToUsedName => bdata = last.bdata
    /\ last.op = "delete" /\ last.ok =>
          LET gone == last.coll[last.pos].camera_ob
          IN  /\ bdata.objects =
                    SelectSeqBy(last.bdata.objects,
                                {o \in Range(last.bdata.objects) : o.uid # gone})
              /\ bdata.cameras =
                    SelectSeqBy(last.bdata.cameras,
                                {c \in Range(last.bdata.cameras) : c.uid # gone})
    /\ last.op \in {"add", "delete"} => bdata.cam_coll = (Len(coll) > 0)

\* C17: after an add, a delete or the resolution of a stale index the
\* active index is a position of the list (when the list has items), and a
\* stale index is resolved to the last position
C17_IndexWithinList ==
    /\ last.op \in {"add", "delete", "resolve"} /\ Len(coll) > 0 =>
          index \in 0..(Len(coll) - 1)
    /\ last.op = "resolve" /\ ~last.ok => index = Len(coll) - 1

\* C18: any two batches the save handler started are started more than 30
\* seconds apart
C18_RendersCooldownApart ==
    \A i, j \in 1..Len(autos) :
        i < j => autos[j].start - autos[i].start > Cooldown

\* the last operation was a save event that found the toggle on and no item
SaveWithoutItems == last.op = "save" /\ last.record /\ Len(last.coll) = 0

\* C19: switching record_on_save on while no item exists leaves the toggle
\* off and shows the warning; a save event that finds the toggle on and no
\* item shows the warning and starts no batch
C19_NoItemsWarns ==
    /\ last.op = "toggle" /\ last.ok /\ Len(last.coll) = 0 =>
          /\ ~saver.record_on_save
          /\ Len(popup) = last.popups + 1
          /\ popup[Len(popup)] = "Could not render because no screenshot cameras exist."
    /\ SaveWithoutItems =>
          /\ Len(popup) = last.popups + 1
          /\ popup[Len(popup)] = "Could not render because no screenshot cameras exist."
          /\ Len(autos) = last.autos
          /\ saver = [record_on_save |-> TRUE, old_time |-> saver.old_time]

C19_Witness ==
    /\ SaveWithoutItems
    /\ Len(popup) >= 1
    /\ \E k \in 1..Len(bdata.objects) : bdata.objects[k].type = "MESH"

\* C20: a batch invoked on a document that was never saved ends at once: the
\* operator, if its poll lets it run, reports an error and returns
\* cancelled; no directory was created, no setting, view or visibility flag
\* was changed and nothing was rendered
C20_UnsavedRejectedUntouched ==
    runs > 0 /\ ~pre.blend_saved =>
        /\ pc = "idle"
        /\ poll(pre.fs, pre.coll, pre.index, pre.sett.export_path) =>
              result = "CANCELLED" /\ report.level = "ERROR"
        /\ result \in {"CANCELLED", "POLL_FAILED"}
        /\ fs = pre.fs
        /\ bags = pre.bags
        /\ view = pre.view
        /\ obs = pre.obs
        /\ colls = pre.colls
        /\ renders = <<>>
        /\ \A k \in 1..Len(history) :
              history[k].renders = <<>> /\ history[k].fs = history[k].pre.fs

C20_Witness ==
    /\ runs > 0
    /\ ~pre.blend_saved
    /\ result = "CANCELLED"
    /\ EnabledSet(pre.coll) # {}
    /\ ~IsDir(fs, ScreenshotsDir)

\* C30: a commit that follows invoke without any pointer-move leaves the
\* item's stored rotation at the value it had before invoke
C30_CommitWithoutMoveKeepsRotation ==
    smp.state = "Committed" /\ smp.moves = 0 => SampledItemRotation = smp.r0

\* C25: restoration runs in reverse order of acquisition; in particular the
\* camera-view toggle is undone while the area is still the 3D view the
\* batch retargeted it to, so the restoration never ends in the refusal of
\* view_camera
C25_CameraViewUndoneIn3DView ==
    /\ mid.restored /\ mid.undo_area # "None" => mid.undo_area = "VIEW_3D"
    /\ \A k \in 1..Len(history) : history[k].result # "RAISED_LOAD"

\* the shading of the session once the batch-wide step of the running batch
\* has been applied to the settings the batch started from
BatchAmbientShading == HandleMiscSettBags(pre.bags, pre.sett.format_type).shading

\* C27: in a batch over the enabled items, every item whose use_defaults
\* flag is set is rendered with the shading the session had before the batch
\* (after the batch-wide step), whichever items were rendered before it
C27_DefaultsRenderedWithAmbient ==
    pre.render_type = "enabled" =>
        \A i \in 1..Len(renders) :
            coll[renders[i].pos].use_defaults =>
                renders[i].shading = BatchAmbientShading

\* C28: the ids of the items are pairwise distinct, the id of every item is
\* its position in the collection (from 0), and select-and-preview of an
\* item makes that item the active item
C28_IdsArePositions ==
    /\ \A i, j \in 1..Len(coll) : i # j => coll[i].id # coll[j].id
    /\ \A i \in 1..Len(coll) : coll[i].id = i - 1
    /\ last.op = "select_and_preview" => index = last.pos - 1


(***************************************************************************)
(* The encoder's claims                                                    *)
(***************************************************************************)
\* what the last encoder call started from
EncDir == Parent(InputPath(sett, coll, index))

EncStem == InputPath(sett, coll, index)[Len(InputPath(sett, coll, index))]

\* the candidate input frames of the last call
EncCandidates == FilesList(enc.entry.fs, EncDir, FileFormat(sett.format_type))

\* the frames of the item, in lexicographic order
EncFrames ==
    Sorted({n \in Listdir(enc.entry.fs, EncDir) :
               /\ StartsWith(n, EncStem \o <<"_">>)
               /\ EndsWith(n, ExtChars(FileFormat(sett.format_type)))})

\* the last call passed the directory check and the file check
EncChecked == enc.entry.called /\ IsDir(enc.entry.fs, EncDir) /\ EncCandidates # {}

\* width or height after crop is odd, for a candidate frame or the target
OddAfterCrop ==
    IF sett.mp4_crop_type = "to_resolution"
    THEN Odd(sett.mp4_crop_res_x) \/ Odd(sett.mp4_crop_res_y)
    ELSE \E n \in EncCandidates :
            Odd(CropAmt(sett, images[n]).w) \/ Odd(CropAmt(sett, images[n]).h)

FileOf(d, name) == d \o <<name>>

\* C21: for n >= 1 frames f0..f(n-1) of the item in lexicographic order and
\* repeat counts s and e, the manifest has exactly s + n + e entries: f0 s
\* extra times at the head, then every frame once in order, then f(n-1) e
\* extra times at the tail, each with duration 1; with s = e = 0 no frame is
\* duplicated
C21_ManifestRepeatExpansion ==
    enc.written /\ Len(EncFrames) >= 1 =>
        LET s == sett.mp4_start_repeat_count
            e == sett.mp4_end_repeat_count
            n == Len(EncFrames)
            t == enc.concat.text
        IN  /\ Len(t) = s + n + e
            /\ \A k \in 1..s : t[k].file = FileOf(EncDir, EncFrames[1])
            /\ \A k \in 1..n : t[s + k].file = FileOf(EncDir, EncFrames[k])
            /\ \A k \in 1..e : t[s + n + k].file = FileOf(EncDir, EncFrames[n])
            /\ \A k \in 1..Len(t) : t[k].duration = 1
            /\ \A j, k \in 1..n : j < k => StrLess(EncFrames[j], EncFrames[k])
            /\ (s = 0 /\ e = 0 => \A j, k \in 1..Len(t) : j # k => t[j] # t[k])

\* three frames, s = 2, e = 1: the manifest is [f0, f0, f0, f1, f2, f2]
C21_Witness ==
    /\ enc.written
    /\ Len(EncFrames) = 3
    /\ sett.mp4_start_repeat_count = 2
    /\ sett.mp4_end_repeat_count = 1
    /\ Len(enc.concat.text) = 6
    /\ enc.concat.text[3] # enc.concat.text[4]

\* C22: an input whose width or height after crop is odd (a candidate frame
\* with no crop or border crop, the crop target with crop to resolution) is
\* rejected with the resolution message before the manifest is written or a
\* pass is started, and no file is written
C22_OddAfterCropRejected ==
    EncChecked /\ OddAfterCrop =>
        /\ result = "CANCELLED"
        /\ report.level = "ERROR"
        /\ report.text =
              "An image with a resolution (or crop res) that is not divisible by 2 was found."
        /\ ~enc.written
        /\ enc.concat = enc.entry.concat
        /\ enc.calls = <<>>
        /\ fs = enc.entry.fs
        /\ pc = "encoder"

\* frames of even size that a border crop would leave with an odd width
C22_Witness ==
    /\ EncChecked
    /\ OddAfterCrop
    /\ sett.mp4_crop_type = "from_border"
    /\ result = "CANCELLED"
    /\ \A n \in EncCandidates : ~Odd(images[n].w) /\ ~Odd(images[n].h)

\* C23: when the directory and file checks pass but no frame matches the
\* item's prefix and extension, generate never ends in an unhandled
\* exception, and a failed encode pass ends in the encoding-failure outcome
C23_ZeroFramesNoCrash ==
    EncChecked /\ ~OddAfterCrop /\ EncFrames = <<>> /\ pc = "encoder" =>
        /\ result # "RAISED"
        /\ enc.calls # <<>>
        /\ enc.calls[Len(enc.calls)].exit # 0 =>
              result = "CANCELLED" /\ report.text = "was not encoded properly"

\* C24: after the encode pass, a non-zero exit and a missing output file
\* are the same failure: both report the encoding-failed error and return a
\* failure outcome; success is returned only with exit zero and the output
\* file present
C24_MissingOutputIsFailure ==
    enc.calls # <<>> /\ pc = "encoder" =>
        LET c    == enc.calls[Len(enc.calls)]
            made == IsFile(fs, enc.output.dir, enc.output.name)
        IN  /\ c.exit # 0 \/ ~made =>
                  /\ report.level = "ERROR"
                  /\ report.text = "was not encoded properly"
                  /\ result = "CANCELLED"
            /\ result = "FINISHED" => c.exit = 0 /\ made

\* position of the first x in q, 0 when absent
FirstIndex(q, x) ==
    IF \E i \in 1..Len(q) : q[i] = x
    THEN CHOOSE i \in 1..Len(q) : q[i] = x /\ \A j \in 1..(i - 1) : q[j] # x
    ELSE 0

\* C26: GIF output runs the encoder process twice, the palette pass first
\* and the encode pass only after the palette pass returned, both over the
\* same manifest; MP4 output runs it once; with EXR frames every pass has
\* the transfer characteristic argument ahead of the input
C26_PassesInOrder ==
    /\ Len(enc.calls) <= (IF sett.mp4_format_type = "gif" THEN 2 ELSE 1)
    /\ \A i \in 1..Len(enc.calls) :
          /\ enc.calls[i].pass =
                (IF sett.mp4_format_type = "gif" /\ i = 1 THEN "palette" ELSE "encode")
          /\ i < Len(enc.calls) => enc.calls[i].returned
          /\ enc.calls[i].concat = enc.calls[1].concat
          /\ FirstIndex(enc.calls[i].args, "concat.txt") =
                FirstIndex(enc.calls[i].args, "-i") + 1
          /\ sett.format_type = "open_exr" =>
                /\ FirstIndex(enc.calls[i].args, "-apply_trc") > 0
                /\ FirstIndex(enc.calls[i].args, "-apply_trc") <
                      FirstIndex(enc.calls[i].args, "-i")
                /\ enc.calls[i].args[FirstIndex(enc.calls[i].args, "-apply_trc") + 1] =
                      "iec61966_2_1"
    /\ enc.calls # <<>> /\ pc = "encoder" =>
          Len(enc.calls) = (IF sett.mp4_format_type = "gif" THEN 2 ELSE 1)
    /\ pc = "palette" => Len(enc.calls) = 1 /\ ~enc.calls[1].returned
    /\ pc = "encode" => ~enc.calls[Len(enc.calls)].returned

\* a GIF of EXR frames is encoded: two passes, both returned
C26_Witness ==
    /\ sett.mp4_format_type = "gif"
    /\ sett.format_type = "open_exr"
    /\ pc = "encoder"
    /\ Len(enc.calls) = 2
    /\ enc.calls[1].returned /\ enc.calls[2].returned
    /\ enc.calls[1].exit = 1

\* C29: whenever the resolution check passes, the frame sizes that reach
\* the encode pass after crop and then downscale are even in both
\* directions
C29_EncodeDimsEven ==
    \A i \in 1..Len(enc.calls) :
        enc.calls[i].pass = "encode" =>
            \A d \in enc.calls[i].dims : ~Odd(d.w) /\ ~Odd(d.h)

====
